---- MODULE Spec2Model ----
(***************************************************************************)
(* Verification model of the pump.fun scanner / paper-trading bot.         *)
(*                                                                         *)
(* The repository holds three variants of the program:                     *)
(*   - src/unnamed/part_000 : RPC signature queue (enqueueSig /            *)
(*     processQueue / getMintFromSignature with retries), synchronous      *)
(*     handleMint, no paper trading;                                       *)
(*   - src/bot.js lines 704-1463 : websocket variant with paper trading    *)
(*     (handleMint, openTrade, closeTrade, updatePrices, commands);        *)
(*   - src/bot.js lines 1-702 : polling variant (scan, safeFetch).         *)
(*                                                                         *)
(* SpecQueue models the queue of part_000 and SpecDrain the same queue     *)
(* under fair scheduling of its timers and RPC replies; SpecLedger,        *)
(* SpecRefresh and SpecCloses model the trade ledger of the websocket      *)
(* variant; SpecScore applies the three scoreToken functions to bounded    *)
(* telemetry.  SpecPnl closes trades over a range of entry marks, exit     *)
(* marks and amounts; SpecSkip runs refresh cycles whose fetches can fail; *)
(* SpecStore, SpecReset and SpecCommands follow the state file through     *)
(* handlers, commands and restarts; SpecTrim applies saveState at the      *)
(* marks of the source; SpecPersist adds a file system that can fail,      *)
(* SpecGate the alert gate under every configuration, and SpecFetch the    *)
(* rate-limited fetch of the polling variant with concurrent callers.      *)
(* Every asynchronous function is a coroutine: a                           *)
(* record holding its program counter and its locals, one action per       *)
(* segment between two suspension points (await).                          *)
(*                                                                         *)
(* Numbers: JavaScript doubles are modelled in fixed point.  SOL amounts   *)
(* are in thousandths of a SOL, percentages in tenths of a percent,        *)
(* market caps in whole USD, times in milliseconds.                        *)
(***************************************************************************)
EXTENDS Integers, Sequences, FiniteSets, TLC

(***************************************************************************)
(* Bounds of the model.                                                    *)
(***************************************************************************)
\* total number of enqueueSig calls in a run of SpecQueue
MaxEnqueues == 4
\* total number of clock advances in a run
MaxTicks == 3
\* Date.now() when the process starts, in ms
StartTime == 1000000

Sigs == {"sig1", "sig2"}

\* total number of safeFetch calls in a run of SpecFetch
MaxFetches == 6
\* the callers of safeFetch: scan and updatePrices on their timers, /close
FetchCallers == {"scan", "updatePrices", "close"}
\* what fetch() settles with: a status other than 429, 429, or a rejection
FetchOutcomes == {"ok", "429", "throws"}
\* time from the request to its response, in ms
FetchLatency == 1000

\* clock advances: one rate-limit pause, and what is left of the staleness bound
TickSteps == {1100, 88900}

(***************************************************************************)
(* Program constants.                                                      *)
(***************************************************************************)
GRADUATION_SOL == 42
SOL_PRICE_USD == 175
PNL_ALERT_STEP == 25
STALE_MS == 90000
QUEUE_PAUSE_MS == 1100
RETRY_BACKOFF_MS == 2000
QUEUE_RETRIES == 3
MIN_KEY_LENGTH == 32
BACKOFF_BASE_MS == 10000
BACKOFF_MAX_MS == 300000
BUY_THRESHOLD == 68
WATCH_THRESHOLD == 45
DEFAULT_MIN_SCORE == 65

PUMP_PROGRAM_ID == "6EF8rrecthR5Dkzon8Nwu78hRvfCKubJ14M5uBEwF6P"

SYSTEM_ACCOUNTS ==
  { "11111111111111111111111111111111",
    "TokenkegQfeZyiNwAJbNbGKPFXCWuBvf9Ss623VQ5DA",
    "ATokenGPvbdGVxr1b2hvZbsiqW5xWH25efTNsLJe8bv",
    "SysvarRent111111111111111111111111111111111",
    "SysvarC1ock11111111111111111111111111111111",
    PUMP_PROGRAM_ID }

(***************************************************************************)
(* Generic helpers.                                                        *)
(***************************************************************************)
Min(a, b) == IF a <= b THEN a ELSE b
Max(a, b) == IF a >= b THEN a ELSE b
Abs(x) == IF x < 0 THEN -x ELSE x
Range(s) == { s[i] : i \in 1..Len(s) }

\* Number.prototype.toFixed on n/d (d > 0): nearest integer, ties away from zero
RoundDiv(n, d) ==
  IF n >= 0 THEN (2 * n + d) \div (2 * d)
  ELSE -((2 * (-n) + d) \div (2 * d))


(***************************************************************************)
(* Dedup-set and closed-list retention of saveState.  The source trims     *)
(* seenMints to its last 1000 entries once it holds more than 2000 and     *)
(* keeps 500 closed trades; the model keeps the same code with the marks   *)
(* scaled down to the size of its identity universe.                       *)
(***************************************************************************)
SEEN_HIGH_WATER == 1
SEEN_KEEP == 1
CLOSED_KEEP == 3
\* cap on simultaneous paper positions (20 in the source), scaled likewise
MAX_OPEN_TRADES == 2

Mints == {"MintA", "MintB", "MintC"}

(***************************************************************************)
(* Scoring engine: scoreToken.                                             *)
(* A coin is the record the metadata endpoint returns.  A missing field    *)
(* is the value JavaScript's "||" replaces: 0 or FALSE.                    *)
(*   virtual_sol_reserves : thousandths of a SOL                           *)
(*   created_timestamp    : ms, 0 when missing                             *)
(***************************************************************************)
AgeSeconds(coin, t) ==
  LET created == IF coin.created_timestamp = 0 THEN t ELSE coin.created_timestamp
  IN  (t - created) \div 1000

\* parseFloat((solInCurve / Math.max(0.1, ageSeconds / 60)).toFixed(3)), in thousandths
VelocitySOL(solInCurve, ageSeconds) ==
  RoundDiv(solInCurve * 60, Max(6, ageSeconds))

\* parseFloat(Math.min(99, solInCurve / GRADUATION_SOL * 100).toFixed(1)), in tenths
BondingPct(solInCurve) == Min(990, RoundDiv(solInCurve, GRADUATION_SOL))

FreshnessBonus_Cumulative(ageSeconds) ==
    (IF ageSeconds < 60 THEN 14000 ELSE 0)
  + (IF ageSeconds < 120 THEN 10000 ELSE 0)
  + (IF ageSeconds < 300 THEN 5000 ELSE 0)

FreshnessBonus(ageSeconds) ==
  IF ageSeconds < 60 THEN 14000
  ELSE IF ageSeconds < 120 THEN 10000
  ELSE IF ageSeconds < 300 THEN 5000
  ELSE 0

LiquidityBonus(solInCurve) ==
    (IF solInCurve > 5000 THEN 5000 ELSE 0)
  + (IF solInCurve > 15000 THEN 5000 ELSE 0)
  + (IF solInCurve > 28000 THEN 4000 ELSE 0)

\* the running sum "score" before rounding, in thousandths of a point
RawScore(coin, t) ==
  LET sol == coin.virtual_sol_reserves
      age == AgeSeconds(coin, t)
  IN    Min(28000, VelocitySOL(sol, age) * 6)
      + (IF coin.twitter THEN 8000 ELSE 0)
      + (IF coin.telegram THEN 6000 ELSE 0)
      + (IF coin.website THEN 4000 ELSE 0)
      + Min(12000, coin.reply_count * 480)
      + (IF coin.king THEN 8000 ELSE 0)
      + FreshnessBonus(age)
      + LiquidityBonus(sol)

\* Math.max(0, Math.min(100, Math.round(score)))
ClampScore(raw) == Max(0, Min(100, (raw + 500) \div 1000))

Verdict(score) ==
  IF score >= BUY_THRESHOLD THEN "BUY"
  ELSE IF score >= WATCH_THRESHOLD THEN "WATCH"
  ELSE "SKIP"

scoreToken(coin, t) ==
  LET score == ClampScore(RawScore(coin, t))
  IN  [ mint        |-> coin.mint,
        solInCurve  |-> coin.virtual_sol_reserves,
        bondingPct  |-> BondingPct(coin.virtual_sol_reserves),
        mcapUSD     |-> coin.usd_market_cap,
        velocitySOL |-> VelocitySOL(coin.virtual_sol_reserves, AgeSeconds(coin, t)),
        ageSeconds  |-> AgeSeconds(coin, t),
        complete    |-> coin.complete,
        score       |-> score,
        verdict     |-> Verdict(score) ]

\* the object handleMint scores when the metadata fetch failed: { mint, symbol, name }
BareCoin(m) ==
  [ mint |-> m, virtual_sol_reserves |-> 0, usd_market_cap |-> 0,
    created_timestamp |-> 0, reply_count |-> 0, twitter |-> FALSE,
    telegram |-> FALSE, website |-> FALSE, king |-> FALSE, complete |-> FALSE ]


(***************************************************************************)
(* State.                                                                  *)
(***************************************************************************)
VARIABLES
  \* the "state" object
  config,        \* [minScore, tradeAmount, paused, paperTrading, alertWatch]
  seenMints,     \* sequence of identities, oldest first
  openTrades,    \* sequence of [mint, ref]: the object's keys in insertion order
  closedTrades,  \* sequence of closed records, newest first
  stats,         \* [tokensReceived, alertsSent, totalTrades, wsConnected]
  disk,          \* the state file: <<>> when there is none, else <<snapshot>>
  \* the environment: clock and file system
  now,           \* Date.now()
  ticks,         \* clock advances so far
  storeFails,    \* TRUE while fs.writeFileSync and fs.readFileSync throw
  \* signature queue (part_000)
  sigQueue,      \* sequence of [sig, enqueuedAt]
  queueBusy,
  drains,        \* running processQueue calls: [pc, sig, attempt, wakeAt]
  lastCallAt,    \* history: <<t>> when the last resolution call was issued at t
  qlog,          \* history, per signature: calls of enqueueSig (of them: early,
                 \* made while the signature was queued or being resolved;
                 \* whileQueued, made while it was queued; noops, returned at
                 \* once), resolutions started (attempts), stale drops (dropped)
  \* trade ledger (src/bot.js, websocket variant)
  trades,        \* the trade objects ever created, by reference (index)
  hmTasks,       \* handleMint calls suspended on fetchTokenMeta, per identity
  alertTasks,    \* analyzeToken(...).then(sendTokenAlert) chains, per identity:
                 \* how many wait for the analysis, how many for the send
  cycles,        \* running updatePrices calls
  closeCmds,     \* /close commands suspended on fetchTokenMeta, per identity
  handled,       \* handleMint calls so far
  named,         \* identities that have appeared so far
  issued,        \* /close and /reset commands received so far
  alertLog,      \* history: the P&L alerts sent for the trades still in use,
                 \* [ref, step, dir, latest]
  \* scoring engine
  telemetry,     \* the coin handed to scoreToken: <<coin>>, <<>> when there is none
  scoredToken,   \* the last result of scoreToken: <<[variant, token]>>
  \* rate-limited fetch (polling variant)
  backoffUntil,  \* Date.now() value before which safeFetch waits
  backoffDelay,  \* the current backoff, in ms
  callers,       \* the safeFetch call of each caller: [pc, wakeAt]
  fetchLog,      \* history: [sent, settled, limited] requests so far
  \* websocket
  socket,        \* TRUE while the connection to the RPC endpoint is open
  \* what the last step sent to the chat
  out

stateVars == <<config, seenMints, openTrades, closedTrades, stats, disk>>
clockVars == <<now, ticks, storeFails>>
queueVars == <<sigQueue, queueBusy, drains, qlog, lastCallAt>>
ledgerVars == <<trades, hmTasks, alertTasks, cycles, closeCmds, handled, named, issued,
                alertLog>>
scoreVars == <<telemetry, scoredToken>>
fetchVars == <<backoffUntil, backoffDelay, callers, fetchLog>>
vars == <<stateVars, clockVars, queueVars, ledgerVars, scoreVars, fetchVars, socket, out>>

DefaultConfig ==
  [ minScore |-> DEFAULT_MIN_SCORE, tradeAmount |-> 100, paused |-> FALSE,
    paperTrading |-> TRUE, alertWatch |-> FALSE ]

DefaultStats ==
  [ tokensReceived |-> 0, alertsSent |-> 0, totalTrades |-> 0, wsConnected |-> FALSE,
    lastEventAt |-> 0 ]

\* everything but the "state" object and the scoring engine
InitRuntime ==
  /\ now = StartTime
  /\ ticks = 0
  /\ storeFails = FALSE
  /\ sigQueue = <<>>
  /\ queueBusy = FALSE
  /\ drains = <<>>
  /\ lastCallAt = <<>>
  /\ qlog = [s \in Sigs |-> [calls |-> 0, early |-> 0, whileQueued |-> 0, noops |-> 0,
                              attempts |-> 0, dropped |-> 0]]
  /\ trades = <<>>
  /\ hmTasks = [m \in Mints |-> 0]
  /\ alertTasks = [m \in Mints |-> [analyze |-> 0, send |-> 0]]
  /\ cycles = <<>>
  /\ closeCmds = [m \in Mints |-> 0]
  /\ handled = 0
  /\ named = 0
  /\ issued = 0
  /\ alertLog = {}
  /\ backoffUntil = 0
  /\ backoffDelay = BACKOFF_BASE_MS
  /\ callers = [c \in FetchCallers |-> [pc |-> "idle", wakeAt |-> 0]]
  /\ fetchLog = [sent |-> 0, settled |-> 0, limited |-> 0]
  /\ socket = FALSE
  /\ out = {}

InitProgram ==
  /\ config = DefaultConfig
  /\ seenMints = <<>>
  /\ openTrades = <<>>
  /\ closedTrades = <<>>
  /\ stats = DefaultStats
  /\ disk = <<>>
  /\ InitRuntime

Init ==
  /\ InitProgram
  /\ telemetry = <<>>
  /\ scoredToken = <<>>

(***************************************************************************)
(* State store: the trimming saveState does before it writes.              *)
(***************************************************************************)
TrimSeenAt_KeepsOldest(seen, highWater, keep) ==
  IF Len(seen) > highWater THEN SubSeq(seen, 1, keep) ELSE seen

\* "if (state.seenMints.length > 2000) state.seenMints = state.seenMints.slice(-1000)"
TrimSeenAt(seen, highWater, keep) ==
  IF Len(seen) > highWater
  THEN SubSeq(seen, Max(1, Len(seen) - keep + 1), Len(seen))
  ELSE seen

\* "if (state.closedTrades.length > 500) state.closedTrades.length = 500"
TrimClosedAt(closed, keep) ==
  IF Len(closed) > keep THEN SubSeq(closed, 1, keep) ELSE closed

TrimSeen(seen) == TrimSeenAt(seen, SEEN_HIGH_WATER, SEEN_KEEP)

TrimClosed(closed) == TrimClosedAt(closed, CLOSED_KEEP)

(***************************************************************************)
(* State store: the state file.  JSON.stringify(state) writes the trade    *)
(* objects of state.openTrades by value, and null for a number that is     *)
(* Infinity or NaN.                                                        *)
(***************************************************************************)
Null == [k |-> "null", v |-> 0]

JsonNumber(x) == IF x.k = "fin" THEN x ELSE Null

JsonTrade(trade) == [trade EXCEPT !.lastAlertStep = JsonNumber(@)]

JsonClosed(closed) ==
  [closed EXCEPT !.lastAlertStep = JsonNumber(@), !.pnlSOL = JsonNumber(@),
                 !.pnlUSD = JsonNumber(@), !.pnlPct = JsonNumber(@)]

\* JSON.stringify(state) for the program state S
Snapshot(S) ==
  [ config       |-> S.config,
    seenMints    |-> S.seenMints,
    openTrades   |-> [ i \in 1..Len(S.openTrades) |->
                         [ mint  |-> S.openTrades[i].mint,
                           trade |-> JsonTrade(S.trades[S.openTrades[i].ref]) ] ],
    closedTrades |-> [ i \in 1..Len(S.closedTrades) |-> JsonClosed(S.closedTrades[i]) ],
    stats        |-> S.stats ]

\* "try { fs.writeFileSync(STATE_FILE, JSON.stringify(state, null, 2)); }
\*  catch (e) { console.error(...) }": the file as the call leaves it
Written(S) == IF storeFails THEN S.disk ELSE <<Snapshot(S)>>

(***************************************************************************)
(* The clock.                                                              *)
(***************************************************************************)
Tick(d) ==
  /\ ticks < MaxTicks
  /\ now' = now + d
  /\ ticks' = ticks + 1
  /\ out' = {}
  /\ UNCHANGED <<storeFails, stateVars, queueVars, ledgerVars, scoreVars, fetchVars, socket>>


(***************************************************************************)
(* Signature resolver and ingestion queue (src/unnamed/part_000).          *)
(***************************************************************************)
WHALE_SOL_THRESH == 5

KeyLength(k) ==
  CASE k \in Mints -> 44
    [] k = "short" -> 8
    [] k = "11111111111111111111111111111111" -> 32
    [] OTHER -> 43

\* what rpcCall("getTransaction") can produce
KeyLists ==
  { <<>>,
    <<"MintA", PUMP_PROGRAM_ID>>,
    <<"11111111111111111111111111111111", "short", "MintB">>,
    <<PUMP_PROGRAM_ID, "short">> }

\* what the try block can throw: the Error of rpcCall for an RPC error object,
\* the abort of the fetch after its timeout, a network failure, and the
\* TypeError of the key loop on a record whose key is null
ErrorMessages ==
  { "RPC error: Too many requests for a specific RPC call",
    "RPC error: 429 Too Many Requests",
    "RPC error: Transaction version (0) is not supported",
    "The operation was aborted due to timeout",
    "fetch failed",
    "Cannot read properties of null (reading 'pubkey')" }

\* String.prototype.includes, for the messages and the needles of the model
Includes(message, needle) ==
  <<message, needle>> \in
    { <<"RPC error: Too many requests for a specific RPC call", "Too many requests">>,
      <<"RPC error: 429 Too Many Requests", "429">> }

IsRateLimit(message) == Includes(message, "Too many requests") \/ Includes(message, "429")

RpcOutcomes ==
     { [kind |-> "tx", keys |-> ks, message |-> ""] : ks \in KeyLists }
  \cup { [kind |-> "null", keys |-> <<>>, message |-> ""] }
  \cup { [kind |-> "throw", keys |-> <<>>, message |-> msg] : msg \in ErrorMessages }

\* getMintFromSignature: "if (isRateLimit && attempt < retries) await sleep(attempt * 2_000)"
ShouldRetry_AnyFailure(isRateLimit, attempt, retries) == attempt < retries
ShouldRetry(isRateLimit, attempt, retries) == isRateLimit /\ attempt < retries

BackoffMs(attempt) == attempt * RETRY_BACKOFF_MS

\* getMintFromSignature: "try { ... } catch (e) { ... }" around the lookup and the
\* key loop catches whatever they throw
Caught_OnlyRateLimit(message) == IsRateLimit(message)
Caught(message) == TRUE

\* the loop over the account keys: <<k>> for the first key accepted, <<>> for null
RECURSIVE ExtractMint(_)
ExtractMint(keys) ==
  IF keys = <<>> THEN <<>>
  ELSE IF Head(keys) \notin SYSTEM_ACCOUNTS /\ KeyLength(Head(keys)) >= MIN_KEY_LENGTH
       THEN <<Head(keys)>>
       ELSE ExtractMint(Tail(keys))

\* the while loop of processQueue from its top: stale entries are shifted and
\* skipped until a fresh one is found (resolved next) or the queue is empty
IsStale_AtBound(item, t) == t - item.enqueuedAt >= STALE_MS
IsStale(item, t) == t - item.enqueuedAt > STALE_MS

RECURSIVE RunLoop_Pop(_, _, _)
RunLoop_Pop(queue, t, droppedSoFar) ==
  IF queue = <<>> THEN [queue |-> <<>>, next |-> <<>>, dropped |-> droppedSoFar]
  ELSE LET last == queue[Len(queue)]
           rest == SubSeq(queue, 1, Len(queue) - 1)
       IN  IF IsStale(last, t)
           THEN RunLoop_Pop(rest, t, Append(droppedSoFar, last))
           ELSE [queue |-> rest, next |-> <<last>>, dropped |-> droppedSoFar]

RECURSIVE RunLoop(_, _, _)
RunLoop(queue, t, droppedSoFar) ==
  IF queue = <<>> THEN [queue |-> <<>>, next |-> <<>>, dropped |-> droppedSoFar]
  ELSE IF IsStale(Head(queue), t)
       THEN RunLoop(Tail(queue), t, Append(droppedSoFar, Head(queue)))
       ELSE [queue |-> Tail(queue), next |-> <<Head(queue)>>, dropped |-> droppedSoFar]

Count(seq, x) == Cardinality({ i \in 1..Len(seq) : seq[i] = x })

LogLoop(log, loop) ==
  [ s \in Sigs |->
      [ log[s] EXCEPT
          !.dropped = @ + Count([i \in 1..Len(loop.dropped) |-> loop.dropped[i].sig], s),
          !.attempts = @ + (IF loop.next # <<>> /\ loop.next[1].sig = s THEN 1 ELSE 0) ] ]

RemoveAt(seq, i) == SubSeq(seq, 1, i - 1) \o SubSeq(seq, i + 1, Len(seq))

NewDrain(item) ==
  [pc |-> "rpc", sig |-> item.sig, attempt |-> 1, wakeAt |-> 0, nth |-> item.nth]

\* what a run of the loop did: the entries it dropped as stale, the entry whose
\* resolution call it issued, each with its age when it was dequeued
LoopEvents(loop, t) ==
       { [type |-> "dropped", sig |-> loop.dropped[i].sig, nth |-> loop.dropped[i].nth,
          age |-> t - loop.dropped[i].enqueuedAt] : i \in 1..Len(loop.dropped) }
  \cup { [type |-> "issued", sig |-> loop.next[i].sig, nth |-> loop.next[i].nth,
          age |-> t - loop.next[i].enqueuedAt] : i \in 1..Len(loop.next) }

\* enqueueSig: "if (!queueBusy) processQueue()"
ShouldStartDrain_Always(busy) == TRUE
ShouldStartDrain_Never(busy) == FALSE
ShouldStartDrain(busy) == ~busy

\* enqueueSig: "if (sigQueue.some(item => item.sig === sig)) return"
AlreadyQueued_Never(queue, sig) == FALSE
AlreadyQueued(queue, sig) == \E i \in 1..Len(queue) : queue[i].sig = sig

TotalCalls == LET RECURSIVE Sum(_)
                  Sum(S) == IF S = {} THEN 0
                            ELSE LET s == CHOOSE x \in S : TRUE
                                 IN  qlog[s].calls + Sum(S \ {s})
              IN  Sum(Sigs)

Queued(sig) == \E i \in 1..Len(sigQueue) : sigQueue[i].sig = sig
InFlight(sig) ==
  \E i \in 1..Len(drains) : drains[i].sig = sig /\ drains[i].pc \in {"rpc", "backoff"}
Pending(sig) == Queued(sig) \/ InFlight(sig)

LogCall(sig) ==
  [qlog EXCEPT ![sig].calls = @ + 1,
               ![sig].early = @ + (IF Pending(sig) THEN 1 ELSE 0),
               ![sig].whileQueued = @ + (IF Queued(sig) THEN 1 ELSE 0)]

\* enqueueSig(sig), with the part of processQueue that runs before its first await
EnqueueSig(sig) ==
  /\ TotalCalls < MaxEnqueues
  /\ UNCHANGED <<stateVars, clockVars, scoreVars, fetchVars, socket, ledgerVars>>
  /\ IF AlreadyQueued(sigQueue, sig)
     THEN /\ qlog' = [LogCall(sig) EXCEPT ![sig].noops = @ + 1]
          /\ out' = {}
          /\ UNCHANGED <<sigQueue, queueBusy, drains, lastCallAt>>
     ELSE LET pushed == Append(sigQueue, [sig |-> sig, enqueuedAt |-> now,
                                          nth |-> TotalCalls + 1])
              called == LogCall(sig)
          IN  IF ShouldStartDrain(queueBusy)
              THEN LET loop == RunLoop(pushed, now, <<>>)
                   IN  /\ sigQueue' = loop.queue
                       /\ qlog' = LogLoop(called, loop)
                       /\ out' = LoopEvents(loop, now)
                       /\ lastCallAt' = IF loop.next # <<>> THEN <<now>> ELSE lastCallAt
                       /\ IF loop.next # <<>>
                          THEN /\ drains' = Append(drains, NewDrain(loop.next[1]))
                               /\ queueBusy' = TRUE
                          ELSE /\ drains' = drains
                               /\ queueBusy' = FALSE
              ELSE /\ sigQueue' = pushed
                   /\ qlog' = called
                   /\ out' = {}
                   /\ UNCHANGED <<queueBusy, drains, lastCallAt>>

\* the coin handleMint of part_000 makes up: reserves of Math.random() * 50
\* lamports (0 to the model's precision), two social links, a random age
DemoCoin(mint, t, ageMs) ==
  [ mint |-> mint, virtual_sol_reserves |-> 0, usd_market_cap |-> 100000,
    created_timestamp |-> t - ageMs, reply_count |-> 0, twitter |-> TRUE,
    telegram |-> FALSE, website |-> TRUE, king |-> FALSE, complete |-> FALSE ]

DemoAges == {30000, 200000}

WhaleAlert(solInCurve) == solInCurve >= WHALE_SOL_THRESH * 1000

\* handleMint of part_000 (no await in it): the new values of
\* seenMints, stats and the alert sent
HandleMintSync(mint, ageMs) ==
  IF mint \in Range(seenMints)
  THEN [seen |-> seenMints, stats |-> stats, disk |-> disk, out |-> {}]
  ELSE LET scored == scoreToken(DemoCoin(mint, now, ageMs), now)
           alert == scored.score >= config.minScore \/ WhaleAlert(scored.solInCurve)
           seen == TrimSeen(Append(seenMints, mint))
           counted == [stats EXCEPT !.tokensReceived = @ + 1,
                                    !.alertsSent = @ + (IF alert THEN 1 ELSE 0)]
       IN  [ seen  |-> seen,
             stats |-> counted,
             disk  |-> Written([ config |-> config, seenMints |-> seen,
                                 openTrades |-> openTrades,
                                 closedTrades |-> TrimClosed(closedTrades),
                                 stats |-> counted, trades |-> trades, disk |-> disk ]),
             out   |-> IF alert THEN {[type |-> "token", mint |-> mint]} ELSE {} ]

\* processQueue after the awaited chain has settled: the pause before the next
\* entry, or the end of the loop
DrainGoesOn(i) ==
  IF Len(sigQueue) > 0
  THEN /\ drains' = [drains EXCEPT ![i].pc = "pause", ![i].wakeAt = now + QUEUE_PAUSE_MS]
       /\ UNCHANGED queueBusy
  ELSE /\ drains' = RemoveAt(drains, i)
       /\ queueBusy' = FALSE

\* processQueue after getMintFromSignature has settled with `mint` (<<>> for
\* null); `call` tells the lookup call that has just settled
AfterResolve(i, mint, ageMs, call) ==
  LET h == IF mint = <<>>
           THEN [seen |-> seenMints, stats |-> stats, disk |-> disk, out |-> {}]
           ELSE HandleMintSync(mint[1], ageMs)
  IN  /\ seenMints' = h.seen
      /\ stats' = h.stats
      /\ disk' = h.disk
      /\ out' = {call, [type |-> "resolved", sig |-> drains[i].sig, nth |-> drains[i].nth,
                        mint |-> mint]} \cup h.out
      /\ UNCHANGED <<config, openTrades, closedTrades, clockVars, scoreVars, fetchVars, socket, ledgerVars, sigQueue,
                     qlog, lastCallAt>>
      /\ DrainGoesOn(i)

\* getMintFromSignature rejects: ".catch(() => {})" of processQueue takes it, and
\* the loop goes on
AfterReject(i, call) ==
  /\ out' = {call, [type |-> "rejected", sig |-> drains[i].sig, nth |-> drains[i].nth]}
  /\ UNCHANGED <<stateVars, clockVars, scoreVars, fetchVars, socket, ledgerVars, sigQueue, qlog, lastCallAt>>
  /\ DrainGoesOn(i)

\* getMintFromSignature: the rpcCall of the current attempt settles
RpcReturn(i, outcome, ageMs) ==
  /\ i \in 1..Len(drains)
  /\ drains[i].pc = "rpc"
  /\ LET call == [type |-> "rpc", sig |-> drains[i].sig, nth |-> drains[i].nth,
                   attempt |-> drains[i].attempt, kind |-> outcome.kind,
                   rateLimit |-> IsRateLimit(outcome.message),
                   mint |-> ExtractMint(outcome.keys)]
     IN  CASE outcome.kind = "tx" -> AfterResolve(i, ExtractMint(outcome.keys), ageMs, call)
           [] outcome.kind = "null" -> AfterResolve(i, <<>>, ageMs, call)
           [] ~Caught(outcome.message) -> AfterReject(i, call)
           [] OTHER ->
                IF ShouldRetry(IsRateLimit(outcome.message), drains[i].attempt, QUEUE_RETRIES)
                THEN /\ drains' = [drains EXCEPT
                                     ![i].pc = "backoff",
                                     ![i].wakeAt = now + BackoffMs(drains[i].attempt)]
                     /\ out' = {call}
                     /\ UNCHANGED <<stateVars, clockVars, scoreVars, fetchVars, socket, ledgerVars, sigQueue, queueBusy,
                                    qlog, lastCallAt>>
                ELSE AfterResolve(i, <<>>, ageMs, call)

\* getMintFromSignature: the backoff sleep is over, next attempt
BackoffWake(i) ==
  /\ i \in 1..Len(drains)
  /\ drains[i].pc = "backoff"
  /\ now >= drains[i].wakeAt
  /\ drains' = [drains EXCEPT ![i].pc = "rpc", ![i].attempt = @ + 1]
  /\ out' = {}
  /\ UNCHANGED <<stateVars, clockVars, scoreVars, fetchVars, socket, ledgerVars, sigQueue, queueBusy, qlog,
                 lastCallAt>>

\* processQueue: the pause between two resolutions is over, back to the loop top
PauseWake(i) ==
  /\ i \in 1..Len(drains)
  /\ drains[i].pc = "pause"
  /\ now >= drains[i].wakeAt
  /\ LET loop == RunLoop(sigQueue, now, <<>>)
     IN  /\ sigQueue' = loop.queue
         /\ qlog' = LogLoop(qlog, loop)
         /\ lastCallAt' = IF loop.next # <<>> THEN <<now>> ELSE lastCallAt
         /\ IF loop.next # <<>>
            THEN /\ drains' = [drains EXCEPT ![i] = NewDrain(loop.next[1])]
                 /\ UNCHANGED queueBusy
            ELSE /\ drains' = RemoveAt(drains, i)
                 /\ queueBusy' = FALSE
         /\ out' = LoopEvents(loop, now)
  /\ UNCHANGED <<stateVars, clockVars, scoreVars, fetchVars, socket, ledgerVars>>

MaxDrains == 3

QueueNext ==
  \/ \E sig \in Sigs : EnqueueSig(sig)
  \/ \E i \in 1..MaxDrains, o \in RpcOutcomes, a \in DemoAges : RpcReturn(i, o, a)
  \/ \E i \in 1..MaxDrains : BackoffWake(i)
  \/ \E i \in 1..MaxDrains : PauseWake(i)
  \/ \E d \in TickSteps : Tick(d)

SpecQueue == Init /\ [][QueueNext]_vars

(***************************************************************************)
(* SpecDrain: the queue under the assumptions that every lookup call       *)
(* settles and every timer fires.  Time passes by the timers of sleep():   *)
(* the clock moves to the deadline of a sleeping drain, and, a bounded     *)
(* number of times, by the long step that lets waiting entries go stale.   *)
(***************************************************************************)
\* sleep(ms): the time of the timer comes
TimerFires(i) ==
  /\ i \in 1..Len(drains)
  /\ drains[i].pc \in {"backoff", "pause"}
  /\ now < drains[i].wakeAt
  /\ now' = drains[i].wakeAt
  /\ out' = {}
  /\ UNCHANGED <<ticks, storeFails, stateVars, queueVars, ledgerVars, scoreVars, fetchVars, socket>>

DrainOutcomes ==
  { o \in RpcOutcomes :
      \/ o.kind = "tx" /\ o.keys = <<"MintA", PUMP_PROGRAM_ID>>
      \/ o.message \in { "RPC error: 429 Too Many Requests", "fetch failed" } }

\* enqueueSig calls in a run of SpecDrain
MaxArrivals == 3

\* the websocket reports another signature
Arrival(sig) == TotalCalls < MaxArrivals /\ EnqueueSig(sig)

\* nothing happens for 88.9 s (once in a run)
LongWait == ticks = 0 /\ Tick(88900)

DrainNext ==
  \/ \E sig \in Sigs : Arrival(sig)
  \/ \E o \in DrainOutcomes : RpcReturn(1, o, 30000)
  \/ BackoffWake(1)
  \/ PauseWake(1)
  \/ TimerFires(1)
  \/ LongWait

SpecDrain ==
  /\ Init
  /\ [][DrainNext]_vars
  /\ WF_vars(\E o \in DrainOutcomes : RpcReturn(1, o, 30000))
  /\ WF_vars(BackoffWake(1))
  /\ WF_vars(PauseWake(1))
  /\ WF_vars(TimerFires(1))


(***************************************************************************)
(* JavaScript numbers of the P&L path.  A division by an entryMcap of 0    *)
(* gives Infinity or NaN, which toFixed/parseFloat hand through.           *)
(*   [k |-> "fin", v |-> n]  a finite number, n in the field's unit        *)
(*   [k |-> "inf", v |-> 0]  Infinity     [k |-> "nan", v |-> 0]  NaN      *)
(***************************************************************************)
Fin(n) == [k |-> "fin", v |-> n]
Infinity == [k |-> "inf", v |-> 0]
NaN == [k |-> "nan", v |-> 0]

\* a !== b
StrictNe(a, b) == a.k = "nan" \/ b.k = "nan" \/ a # b

Ratio_Truncates(currentMcap, entryMcap, scale) ==
  IF entryMcap = 0
  THEN IF currentMcap = 0 THEN NaN ELSE Infinity
  ELSE Fin(((currentMcap - entryMcap) * scale) \div entryMcap)

\* (currentMcap / entryMcap - 1) * scale, rounded by toFixed to the unit 1/perUnit
Ratio(currentMcap, entryMcap, scale) ==
  IF entryMcap = 0
  THEN IF currentMcap = 0 THEN NaN ELSE Infinity
  ELSE Fin(RoundDiv((currentMcap - entryMcap) * scale, entryMcap))

\* calcPnL: pnlPct in tenths of a percent, pnlSOL in 1/10000 SOL, pnlUSD in cents
calcPnL(trade, currentMcap) ==
  LET pnlSOL == Ratio(currentMcap, trade.entryMcap, trade.solAmount * 10)
  IN  [ pnlSOL |-> pnlSOL,
        pnlUSD |-> IF pnlSOL.k = "fin"
                   THEN Fin(RoundDiv(pnlSOL.v * SOL_PRICE_USD, 100))
                   ELSE pnlSOL,
        pnlPct |-> Ratio(currentMcap, trade.entryMcap, 1000) ]

\* Math.floor(Math.abs(pnlPct) / PNL_ALERT_STEP) * Math.sign(pnlPct)
AlertStep(pnlPct) ==
  IF pnlPct.k = "fin"
  THEN Fin((Abs(pnlPct.v) \div (PNL_ALERT_STEP * 10))
           * (IF pnlPct.v > 0 THEN 1 ELSE IF pnlPct.v < 0 THEN -1 ELSE 0))
  ELSE pnlPct

\* updatePrices: "if (step !== 0 && step !== trade.lastAlertStep)"
ShouldAlertPnl_AnyNonZero(step, lastAlertStep) == StrictNe(step, Fin(0))
ShouldAlertPnl_AnyChange(step, lastAlertStep) == StrictNe(step, lastAlertStep)
ShouldAlertPnl(step, lastAlertStep) ==
  StrictNe(step, Fin(0)) /\ StrictNe(step, lastAlertStep)

(***************************************************************************)
(* state.openTrades: an object used as a map; its keys keep insertion      *)
(* order.  An entry holds a reference into `trades`.                       *)
(***************************************************************************)
HasOpen(ot, m) == \E i \in 1..Len(ot) : ot[i].mint = m
RefOf(ot, m) == ot[CHOOSE i \in 1..Len(ot) : ot[i].mint = m].ref
Keys(ot) == [i \in 1..Len(ot) |-> ot[i].mint]
DeleteKey(ot, m) == SelectSeq(ot, LAMBDA e : e.mint # m)
PutKey(ot, m, r) ==
  IF HasOpen(ot, m)
  THEN [i \in 1..Len(ot) |-> IF ot[i].mint = m THEN [mint |-> m, ref |-> r] ELSE ot[i]]
  ELSE Append(ot, [mint |-> m, ref |-> r])

\* the program state the ledger functions read and write, as one value
St ==
  [ config |-> config, seenMints |-> seenMints, openTrades |-> openTrades,
    closedTrades |-> closedTrades, stats |-> stats, trades |-> trades, disk |-> disk ]

\* A trade object that is neither in state.openTrades nor held by a running
\* updatePrices call can no longer be read: its slot is cleared.
Unreachable ==
  [ mint |-> "", entryMcap |-> 0, currentMcap |-> 0, peakMcap |-> 0, solAmount |-> 0,
    entryTime |-> 0, score |-> 0, lastAlertStep |-> [k |-> "fin", v |-> 0],
    migrated |-> FALSE ]

Collect(heap, ot, cycs) ==
  [ r \in 1..Len(heap) |->
      IF \/ \E i \in 1..Len(ot) : ot[i].ref = r
         \/ \E c \in 1..Len(cycs) : cycs[c].ref = r
      THEN heap[r] ELSE Unreachable ]

\* the step ends with the program state S and the running cycles cycs
Live(ot, cycs) ==
  { ot[i].ref : i \in 1..Len(ot) } \cup { cycs[c].ref : c \in 1..Len(cycs) }

\* the step ends with the program state S and the running cycles cycs, and has
\* sent the P&L alerts `sent`
CommitAlerts(S, cycs, sent) ==
  /\ config' = S.config
  /\ seenMints' = S.seenMints
  /\ openTrades' = S.openTrades
  /\ closedTrades' = S.closedTrades
  /\ stats' = S.stats
  /\ disk' = S.disk
  /\ cycles' = cycs
  /\ trades' = Collect(S.trades, S.openTrades, cycs)
  /\ alertLog' =
       { l \in { IF \E n \in sent : n.ref = l.ref THEN [l EXCEPT !.latest = FALSE] ELSE l :
                  l \in alertLog } \cup sent :
           l.ref \in Live(S.openTrades, cycs) }

Commit(S, cycs) == CommitAlerts(S, cycs, {})

\* a variant whose failed write undoes the trimming
saveState_FailureKeepsAll(S) ==
  IF storeFails THEN S
  ELSE LET T == [S EXCEPT !.seenMints = TrimSeen(S.seenMints),
                          !.closedTrades = TrimClosed(S.closedTrades)]
       IN  [T EXCEPT !.disk = Written(T)]

saveState(S) ==
  LET T == [S EXCEPT !.seenMints = TrimSeen(S.seenMints),
                     !.closedTrades = TrimClosed(S.closedTrades)]
  IN  [T EXCEPT !.disk = Written(T)]

(***************************************************************************)
(* Paper trading: openTrade, closeTrade.                                   *)
(***************************************************************************)
\* openTrade: "if (Object.keys(state.openTrades).length >= MAX_OPEN_TRADES) return null"
CapReached_OffByOne(ot) == Len(ot) > MAX_OPEN_TRADES
CapReached(ot) == Len(ot) >= MAX_OPEN_TRADES

\* openTrade: "if (state.openTrades[token.mint]) return null"
AlreadyOpen_Ignored(ot, m) == FALSE
AlreadyOpen(ot, m) == HasOpen(ot, m)

NewTrade(token, S, t) ==
  [ mint |-> token.mint, entryMcap |-> token.mcapUSD, currentMcap |-> token.mcapUSD,
    peakMcap |-> token.mcapUSD, solAmount |-> S.config.tradeAmount, entryTime |-> t,
    score |-> token.score, lastAlertStep |-> Fin(0), migrated |-> FALSE ]

openTradeRejects(S, token) ==
  CapReached(S.openTrades) \/ AlreadyOpen(S.openTrades, token.mint)

openTrade(S, token, t) ==
  IF openTradeRejects(S, token) THEN S
  ELSE saveState(
         [S EXCEPT !.trades = Append(S.trades, NewTrade(token, S, t)),
                   !.openTrades = PutKey(S.openTrades, token.mint, Len(S.trades) + 1),
                   !.stats.totalTrades = @ + 1])

ClosedRecord(trade, exitMcap, reason, t) ==
  LET pnl == calcPnL(trade, exitMcap)
  IN  [ exitMcap |-> exitMcap, exitTime |-> t, durationMs |-> t - trade.entryTime,
        pnlSOL |-> pnl.pnlSOL, pnlUSD |-> pnl.pnlUSD, pnlPct |-> pnl.pnlPct,
        reason |-> reason ] @@ trade

\* closeTrade: "if (!trade) return null"
closeTradeReturnsNull(S, m) == ~HasOpen(S.openTrades, m)

closeTrade_Appends(S, m, exitMcap, reason, t) ==
  IF closeTradeReturnsNull(S, m) THEN S
  ELSE saveState(
         [S EXCEPT
            !.closedTrades =
               @ \o <<ClosedRecord(S.trades[RefOf(S.openTrades, m)], exitMcap, reason, t)>>,
            !.openTrades = DeleteKey(@, m)])

closeTrade(S, m, exitMcap, reason, t) ==
  IF closeTradeReturnsNull(S, m) THEN S
  ELSE saveState(
         [S EXCEPT
            !.closedTrades =
               <<ClosedRecord(S.trades[RefOf(S.openTrades, m)], exitMcap, reason, t)>> \o @,
            !.openTrades = DeleteKey(@, m)])

(***************************************************************************)
(* Bounds and inputs of the ledger model.                                  *)
(***************************************************************************)
\* handleMint calls in a run
MaxHandles == 3
\* handleMint calls suspended on their fetch at the same time
MaxInFlight == 2
\* alert chains (analysis, then send) pending at the same time
MaxAlertChains == 1
\* updatePrices calls that overlap
MaxCycles == 2
\* /close commands suspended at the same time
MaxCloseCmds == 1
\* /close and /reset commands in a run
MaxCommands == 1

\* usd_market_cap values the metadata endpoint reports; 0 stands for a missing field
EntryMcaps == {0, 100}
PriceMcaps == {0, 70, 100, 130}

\* the scenario of the spec: 10 SOL in the curve after 30 s, Twitter link,
\* 50 replies, king of the hill: score 75, BUY
HotCoin(m, mcap, t) ==
  [ mint |-> m, virtual_sol_reserves |-> 10000, usd_market_cap |-> mcap,
    created_timestamp |-> t - 30000, reply_count |-> 50, twitter |-> TRUE,
    telegram |-> FALSE, website |-> FALSE, king |-> TRUE, complete |-> FALSE ]

\* the same without the link and the crown: score 59, WATCH
WarmCoin(m, t) ==
  [HotCoin(m, 100, t) EXCEPT !.twitter = FALSE, !.king = FALSE]

\* what fetchTokenMeta resolves to for a price refresh or a /close
PriceResults ==
       {<<>>}
  \cup { <<[usd_market_cap |-> mc, complete |-> FALSE]>> : mc \in PriceMcaps }
  \cup { <<[usd_market_cap |-> 130, complete |-> TRUE]>> }

(***************************************************************************)
(* handleMint (websocket variant).                                         *)
(***************************************************************************)
\* a variant without the membership test
AlreadySeen_Never(seen, m) == FALSE

\* handleMint: "if (state.seenMints.includes(mint)) return"
AlreadySeen(seen, m) == m \in Range(seen)

\* handleMint up to "await fetchTokenMeta(mint)"
InFlight2(tasks) == Cardinality({ m \in Mints : tasks[m] >= 1 })
                    + Cardinality({ m \in Mints : tasks[m] >= 2 })
PendingChains ==
    Cardinality({ m \in Mints : alertTasks[m].analyze + alertTasks[m].send >= 1 })
  + Cardinality({ m \in Mints : alertTasks[m].analyze + alertTasks[m].send >= 2 })

\* Identities are interchangeable: they are named in the order they appear.
MintOrder == <<"MintA", "MintB", "MintC">>
MintIndex(m) == CHOOSE i \in 1..Len(MintOrder) : MintOrder[i] = m

HandleMintStart(m) ==
  /\ handled < MaxHandles
  /\ InFlight2(hmTasks) < MaxInFlight
  /\ PendingChains < MaxAlertChains
  /\ MintIndex(m) <= named + 1
  /\ named' = Max(named, MintIndex(m))
  /\ handled' = handled + 1
  /\ out' = {}
  /\ UNCHANGED <<clockVars, scoreVars, fetchVars, socket, queueVars, alertTasks, cycles, closeCmds, issued>>
  /\ IF AlreadySeen(seenMints, m)
     THEN UNCHANGED <<stateVars, trades, alertLog, hmTasks>>
     ELSE /\ seenMints' = Append(seenMints, m)
          /\ stats' = [stats EXCEPT !.tokensReceived = @ + 1, !.lastEventAt = now]
          /\ hmTasks' = IF config.paused THEN hmTasks ELSE [hmTasks EXCEPT ![m] = @ + 1]
          /\ UNCHANGED <<config, openTrades, closedTrades, disk, trades, alertLog>>

shouldAlert(token, cfg) ==
  \/ token.verdict = "BUY" /\ token.score >= cfg.minScore
  \/ token.verdict = "WATCH" /\ cfg.alertWatch

\* handleMint from the return of fetchTokenMeta to its end
HandleMintFetched(m, coin) ==
  /\ hmTasks[m] > 0
  /\ hmTasks' = [hmTasks EXCEPT ![m] = @ - 1]
  /\ UNCHANGED <<clockVars, scoreVars, fetchVars, socket, queueVars, closeCmds, handled, named, issued>>
  /\ IF coin # <<>> /\ coin[1].complete
     THEN /\ out' = {}
          /\ UNCHANGED <<stateVars, trades, alertLog, cycles, alertTasks>>
     ELSE LET token == scoreToken(IF coin = <<>> THEN BareCoin(m) ELSE coin[1], now)
          IN  /\ out' = {[type |-> "scored", mint |-> m, score |-> token.score,
                          verdict |-> token.verdict]}
              /\ IF ~shouldAlert(token, config)
                 THEN /\ Commit(saveState(St), cycles)
                      /\ UNCHANGED alertTasks
                 ELSE /\ Commit(saveState(
                                   IF config.paperTrading /\ token.verdict = "BUY"
                                   THEN openTrade(St, token, now)
                                   ELSE St),
                                cycles)
                      /\ alertTasks' = [alertTasks EXCEPT ![m].analyze = @ + 1]

\* analyzeToken settles; on success sendTokenAlert starts its sendMessage
AnalyzeDone(m, ok) ==
  /\ alertTasks[m].analyze > 0
  /\ alertTasks' = [alertTasks EXCEPT ![m].analyze = @ - 1,
                                      ![m].send = @ + (IF ok THEN 1 ELSE 0)]
  /\ out' = IF ok THEN {[type |-> "token", mint |-> m]} ELSE {}
  /\ UNCHANGED <<stateVars, clockVars, scoreVars, fetchVars, socket, queueVars, trades, alertLog, hmTasks, cycles, closeCmds, handled, named, issued>>

\* sendTokenAlert: sendMessage settles; "state.stats.alertsSent++" on success
TokenAlertSent(m, ok) ==
  /\ alertTasks[m].send > 0
  /\ alertTasks' = [alertTasks EXCEPT ![m].send = @ - 1]
  /\ stats' = IF ok THEN [stats EXCEPT !.alertsSent = @ + 1] ELSE stats
  /\ out' = {}
  /\ UNCHANGED <<config, seenMints, openTrades, closedTrades, disk, clockVars, scoreVars, fetchVars, socket,
                 queueVars, trades, alertLog, hmTasks, cycles, closeCmds, handled, named,
                 issued>>

(***************************************************************************)
(* updatePrices.  A cycle is [pc, mint, rest, ref, cur, isMigrated]: the   *)
(* identity being refreshed, those still to visit, the trade object held   *)
(* in the local `trade`, and the locals currentMcap and isMigrated.        *)
(***************************************************************************)
\* "for (const mint of mints) { const trade = state.openTrades[mint];
\*  if (!trade) continue; ...": the identities from the first open one on
RECURSIVE NextOpen(_, _)
NextOpen(rest, ot) ==
  IF rest = <<>> THEN <<>>
  ELSE IF HasOpen(ot, Head(rest)) THEN rest
  ELSE NextOpen(Tail(rest), ot)

\* the loop from its top: the cycle suspends on the next fetch, or the loop
\* is over and the function ends with saveState()
LoopTop(S, rest) ==
  LET r == NextOpen(rest, S.openTrades)
  IN  IF r = <<>>
      THEN [S |-> saveState(S), cyc |-> <<>>]
      ELSE [S |-> S,
            cyc |-> <<[ pc |-> "fetch", mint |-> Head(r), rest |-> Tail(r),
                        ref |-> RefOf(S.openTrades, Head(r)),
                        cur |-> 0, isMigrated |-> FALSE ]>>]

\* a variant that leaves the loop at the first failed fetch
FetchFailed_Breaks(S, rest) == [S |-> saveState(S), cyc |-> <<>>]

\* "if (!data) continue;": nothing is written, the loop goes to its top
FetchFailed(S, rest) == LoopTop(S, rest)

\* cycle c goes on as r.cyc says (<<>>: it has ended)
SetCycle(c, r) ==
  Commit(r.S, IF r.cyc = <<>> THEN RemoveAt(cycles, c)
              ELSE [cycles EXCEPT ![c] = r.cyc[1]])

UpdatePricesStart(maxCycles) ==
  /\ Len(cycles) < maxCycles
  /\ out' = {}
  /\ UNCHANGED <<clockVars, scoreVars, fetchVars, socket, queueVars, hmTasks, alertTasks, closeCmds, handled, named, issued>>
  /\ IF Len(openTrades) = 0
     THEN UNCHANGED <<stateVars, trades, alertLog, cycles>>
     ELSE LET r == LoopTop(St, Keys(openTrades))
          IN  Commit(r.S, cycles \o r.cyc)

\* a variant that alerts whenever the metadata says complete
MigrationCheck_IgnoresFlag(S, cyc) ==
  IF cyc.isMigrated
  THEN [ S   |-> [S EXCEPT !.trades[cyc.ref].migrated = TRUE],
         cyc |-> <<[cyc EXCEPT !.pc = "gradAlert"]>>,
         out |-> {[type |-> "graduated", mint |-> cyc.mint, ref |-> cyc.ref]} ]
  ELSE LoopTop(S, cyc.rest) @@ [out |-> {}]

\* "if (isMigrated && !trade.migrated)": the graduation alert is sent and awaited
MigrationCheck(S, cyc) ==
  IF cyc.isMigrated /\ ~S.trades[cyc.ref].migrated
  THEN [ S   |-> [S EXCEPT !.trades[cyc.ref].migrated = TRUE],
         cyc |-> <<[cyc EXCEPT !.pc = "gradAlert"]>>,
         out |-> {[type |-> "graduated", mint |-> cyc.mint, ref |-> cyc.ref]} ]
  ELSE LoopTop(S, cyc.rest) @@ [out |-> {}]

\* the mark and the high-water mark of the trade after a fetch
Refreshed_PeakFollowsMark(trade, data) ==
  LET currentMcap == IF data.usd_market_cap # 0 THEN data.usd_market_cap
                     ELSE trade.currentMcap
  IN  [trade EXCEPT !.currentMcap = currentMcap, !.peakMcap = currentMcap]

Refreshed(trade, data) ==
  LET currentMcap == IF data.usd_market_cap # 0 THEN data.usd_market_cap
                     ELSE trade.currentMcap
  IN  [trade EXCEPT !.currentMcap = currentMcap,
                    !.peakMcap = IF currentMcap > @ THEN currentMcap ELSE @]

\* the direction in which the mark moved
Direction(oldMcap, newMcap) ==
  IF newMcap > oldMcap THEN "up" ELSE IF newMcap < oldMcap THEN "down" ELSE "flat"

\* fetchTokenMeta settles for the trade of cycle c.  `out` also names the trade
\* refreshed and the mark found.
PriceFetched(c, data) ==
  /\ c \in 1..Len(cycles)
  /\ cycles[c].pc = "fetch"
  /\ UNCHANGED <<clockVars, scoreVars, fetchVars, socket, queueVars, hmTasks, alertTasks, closeCmds, handled, named, issued>>
  /\ IF data = <<>>
     THEN /\ SetCycle(c, FetchFailed(St, cycles[c].rest))
          /\ out' = {[type |-> "skipped", mint |-> cycles[c].mint, ref |-> cycles[c].ref,
                      rest |-> cycles[c].rest]}
     ELSE LET cyc   == [cycles[c] EXCEPT !.isMigrated = data[1].complete,
                                         !.cur = Refreshed(trades[cycles[c].ref], data[1]).currentMcap]
              trade == Refreshed(trades[cyc.ref], data[1])
              step  == AlertStep(calcPnL(trade, cyc.cur).pnlPct)
              seen  == [type |-> "refresh", mint |-> cyc.mint, ref |-> cyc.ref,
                        mark |-> cyc.cur, pnl |-> calcPnL(trade, cyc.cur),
                        complete |-> cyc.isMigrated]
          IN  IF ShouldAlertPnl(step, trade.lastAlertStep)
              THEN /\ CommitAlerts(
                        [St EXCEPT !.trades[cyc.ref] = [trade EXCEPT !.lastAlertStep = step]],
                        [cycles EXCEPT ![c] = [cyc EXCEPT !.pc = "pnlAlert"]],
                        {[ref |-> cyc.ref, step |-> step, latest |-> TRUE,
                          dir |-> Direction(trades[cyc.ref].currentMcap, cyc.cur)]})
                   /\ out' = {seen, [type |-> "pnl", mint |-> cyc.mint, ref |-> cyc.ref,
                                     step |-> step]}
              ELSE LET r == MigrationCheck([St EXCEPT !.trades[cyc.ref] = trade], cyc)
                   IN  /\ SetCycle(c, r)
                       /\ out' = {seen} \cup r.out

\* "await sendPnLAlert(...).catch(() => {})" of the P&L alert returns
PnlAlertDone(c) ==
  /\ c \in 1..Len(cycles)
  /\ cycles[c].pc = "pnlAlert"
  /\ LET r == MigrationCheck(St, cycles[c])
     IN  /\ SetCycle(c, r)
         /\ out' = r.out
  /\ UNCHANGED <<clockVars, scoreVars, fetchVars, socket, queueVars, hmTasks, alertTasks, closeCmds, handled, named, issued>>

\* the graduation alert returns: closeTrade(mint, currentMcap, "graduated"),
\* and the close alert is sent and awaited if a record came back
GradAlertDone(c) ==
  /\ c \in 1..Len(cycles)
  /\ cycles[c].pc = "gradAlert"
  /\ IF closeTradeReturnsNull(St, cycles[c].mint)
     THEN /\ SetCycle(c, LoopTop(St, cycles[c].rest))
          /\ out' = {}
     ELSE /\ Commit(closeTrade(St, cycles[c].mint, cycles[c].cur, "graduated", now),
                    [cycles EXCEPT ![c].pc = "closeAlert"])
          /\ out' = {[type |-> "closed", mint |-> cycles[c].mint, reason |-> "graduated"]}
  /\ UNCHANGED <<clockVars, scoreVars, fetchVars, socket, queueVars, hmTasks, alertTasks, closeCmds, handled, named, issued>>

CloseAlertDone(c) ==
  /\ c \in 1..Len(cycles)
  /\ cycles[c].pc = "closeAlert"
  /\ SetCycle(c, LoopTop(St, cycles[c].rest))
  /\ out' = {}
  /\ UNCHANGED <<clockVars, scoreVars, fetchVars, socket, queueVars, hmTasks, alertTasks, closeCmds, handled, named, issued>>

(***************************************************************************)
(* Commands: /close <mint>, /reset.                                        *)
(***************************************************************************)
PendingCloseCmds == Cardinality({ m \in Mints : closeCmds[m] > 0 })

\* /close up to "await fetchTokenMeta(mint)"
CloseCmdStart(m) ==
  /\ issued < MaxCommands
  /\ issued' = issued + 1
  /\ PendingCloseCmds < MaxCloseCmds
  /\ IF ~HasOpen(openTrades, m)
     THEN /\ out' = {[type |-> "reply", mint |-> m, text |-> "Trade not found."]}
          /\ UNCHANGED closeCmds
     ELSE /\ out' = {}
          /\ closeCmds' = [closeCmds EXCEPT ![m] = @ + 1]
  /\ UNCHANGED <<stateVars, clockVars, scoreVars, fetchVars, socket, queueVars, trades, alertLog, hmTasks, alertTasks, cycles, handled, named>>

\* /close after the fetch: "data?.usd_market_cap || state.openTrades[mint].currentMcap"
\* and sendCloseAlert(closed) throw a TypeError when the trade is gone
CloseCmdFetched(m, data) ==
  /\ closeCmds[m] > 0
  /\ closeCmds' = [closeCmds EXCEPT ![m] = @ - 1]
  /\ UNCHANGED <<clockVars, scoreVars, fetchVars, socket, queueVars, hmTasks, alertTasks, handled, named, issued>>
  /\ IF ~HasOpen(openTrades, m)
     THEN /\ out' = {[type |-> "error", mint |-> m, text |-> "TypeError"]}
          /\ UNCHANGED <<stateVars, trades, alertLog, cycles>>
     ELSE LET exitMcap == IF data # <<>> /\ data[1].usd_market_cap # 0
                          THEN data[1].usd_market_cap
                          ELSE trades[RefOf(openTrades, m)].currentMcap
          IN  /\ Commit(closeTrade(St, m, exitMcap, "manual", now), cycles)
              /\ out' = {[type |-> "closed", mint |-> m, reason |-> "manual"]}

Cleared_KeepsClosed(S) == [S EXCEPT !.openTrades = <<>>, !.stats = DefaultStats]
\* /reset: the three assignments
Cleared(S) ==
  [S EXCEPT !.openTrades = <<>>, !.closedTrades = <<>>, !.stats = DefaultStats]

\* /reset
ResetCmd ==
  /\ issued < MaxCommands
  /\ issued' = issued + 1
  /\ Commit(saveState(Cleared(St)), cycles)
  /\ out' = {[type |-> "reply", text |-> "Cleared."]}
  /\ UNCHANGED <<clockVars, scoreVars, fetchVars, socket, queueVars, hmTasks, alertTasks, closeCmds, handled, named>>

\* the argument of a command, ctx.message.text.split(" ")[1]; "" when there is none
ArgTexts ==
  {"", "abc", "-1", "0", "0.1", "0.5", "50", "50.7", "100", "101", "on", "off", "ON"}

\* parseFloat(text), amounts in thousandths of a SOL
ParseFloat(text) ==
  CASE text = "-1" -> Fin(-1000)
    [] text = "0" -> Fin(0)
    [] text = "0.1" -> Fin(100)
    [] text = "0.5" -> Fin(500)
    [] text = "50" -> Fin(50000)
    [] text = "50.7" -> Fin(50700)
    [] text = "100" -> Fin(100000)
    [] text = "101" -> Fin(101000)
    [] OTHER -> NaN

\* parseInt(text)
ParseInt(text) ==
  CASE text = "-1" -> Fin(-1)
    [] text \in {"0", "0.1", "0.5"} -> Fin(0)
    [] text \in {"50", "50.7"} -> Fin(50)
    [] text = "100" -> Fin(100)
    [] text = "101" -> Fin(101)
    [] OTHER -> NaN

\* text.toLowerCase(); undefined (no argument) stays undefined
ToLowerCase(text) == IF text = "ON" THEN "on" ELSE text

RejectedCmd_Saves(S) == saveState(S)
\* a configuration command with an invalid argument returns after its usage reply
RejectedCmd(S) == S

\* the state after a configuration command: its argument was valid and S is the
\* state with the new value, or it was not and S is the state as it was
ConfigCmd(S, valid) == IF valid THEN saveState(S) ELSE RejectedCmd(S)

ConfigCmdFrame ==
  UNCHANGED <<clockVars, scoreVars, fetchVars, socket, queueVars, hmTasks, alertTasks, closeCmds, handled,
              named, issued>>

\* /setscore <val>
SetScoreCmd(text) ==
  /\ LET val == ParseInt(text)
         valid == ~(val.k = "nan" \/ val.v < 0 \/ val.v > 100)
     IN  /\ Commit(ConfigCmd(IF valid THEN [St EXCEPT !.config.minScore = val.v] ELSE St,
                             valid), cycles)
         /\ out' = {[type |-> "reply", cmd |-> "setscore", arg |-> text,
                     text |-> IF valid THEN "Min score set" ELSE "Usage: /setscore <0-100>"]}
  /\ ConfigCmdFrame

\* /watchalerts on|off
WatchAlertsCmd(text) ==
  /\ LET val == ToLowerCase(text)
         valid == ~(val # "on" /\ val # "off")
     IN  /\ Commit(ConfigCmd(IF valid THEN [St EXCEPT !.config.alertWatch = (val = "on")]
                                       ELSE St,
                             valid), cycles)
         /\ out' = {[type |-> "reply", cmd |-> "watchalerts", arg |-> text,
                     text |-> IF valid THEN "WATCH alerts set"
                              ELSE "Usage: /watchalerts on|off"]}
  /\ ConfigCmdFrame

\* /pause, /resume
PauseCmd(paused) ==
  /\ Commit(saveState([St EXCEPT !.config.paused = paused]), cycles)
  /\ out' = {[type |-> "reply", text |-> IF paused THEN "Paused." ELSE "Resumed."]}
  /\ ConfigCmdFrame

\* /setamount <val>
SetAmountCmd(text) ==
  /\ LET val == ParseFloat(text)
         valid == ~(val.k = "nan" \/ val.v <= 0)
     IN  /\ Commit(ConfigCmd(IF valid THEN [St EXCEPT !.config.tradeAmount = val.v] ELSE St,
                             valid), cycles)
         /\ out' = {[type |-> "reply", cmd |-> "setamount", arg |-> text,
                     text |-> IF valid THEN "Paper trade size set"
                              ELSE "Usage: /setamount <SOL e.g. 0.5>"]}
  /\ ConfigCmdFrame

(***************************************************************************)
(* The websocket connection, the process signals and the start of the      *)
(* process.  A start finds the state file as the last save of any variant  *)
(* left it ("./state.json" in all three) and nothing else: the calls in    *)
(* progress and the queue of the previous process are gone.                *)
(***************************************************************************)
\* everything but the "state" object after a start
Restarted ==
  /\ sigQueue' = <<>>
  /\ queueBusy' = FALSE
  /\ drains' = <<>>
  /\ hmTasks' = [m \in Mints |-> 0]
  /\ alertTasks' = [m \in Mints |-> [analyze |-> 0, send |-> 0]]
  /\ cycles' = <<>>
  /\ closeCmds' = [m \in Mints |-> 0]
  /\ alertLog' = {}
  /\ socket' = FALSE
  /\ UNCHANGED <<disk, clockVars, scoreVars, fetchVars, qlog, lastCallAt, handled, named, issued>>

\* JSON.parse of the state file: the trade objects are new objects
ParsedTrades(saved) == [i \in 1..Len(saved.openTrades) |-> saved.openTrades[i].trade]
ParsedOpen(saved) ==
  [i \in 1..Len(saved.openTrades) |-> [mint |-> saved.openTrades[i].mint, ref |-> i]]

\* loadState of the websocket variant
loadState(saved) ==
  [ config |-> saved.config, seenMints |-> saved.seenMints,
    openTrades |-> ParsedOpen(saved), closedTrades |-> saved.closedTrades,
    stats |-> [saved.stats EXCEPT !.wsConnected = FALSE],
    trades |-> ParsedTrades(saved) ]

\* loadState of part_000: "state = { ...state, ...saved, config: { ... } }"
loadStateQueue(saved) ==
  [ config |-> saved.config, seenMints |-> saved.seenMints,
    openTrades |-> ParsedOpen(saved), closedTrades |-> saved.closedTrades,
    stats |-> saved.stats,
    trades |-> ParsedTrades(saved) ]

\* the state before loadState: the literal of the module
DefaultState ==
  [ config |-> DefaultConfig, seenMints |-> <<>>, openTrades |-> <<>>,
    closedTrades |-> <<>>, stats |-> DefaultStats, trades |-> <<>> ]

Loads(variant, S) ==
  /\ config' = S.config
  /\ seenMints' = S.seenMints
  /\ openTrades' = S.openTrades
  /\ closedTrades' = S.closedTrades
  /\ stats' = S.stats
  /\ trades' = S.trades
  /\ out' = {[type |-> "loaded", variant |-> variant]}
  /\ Restarted

\* a state file that JSON.parse rejects (a write that was cut short)
Garbage == [garbage |-> TRUE]

\* fs.readFileSync or JSON.parse throws inside the try of loadState
LoadThrows == storeFails \/ disk = <<Garbage>>

\* the websocket variant starts
BootWebsocket ==
  /\ Loads("websocket", IF disk = <<>> \/ LoadThrows THEN DefaultState
                        ELSE loadState(disk[1]))

\* part_000 starts
BootQueue ==
  /\ Loads("queue", IF disk = <<>> \/ LoadThrows THEN DefaultState
                    ELSE loadStateQueue(disk[1]))

\* the file system stops accepting reads and writes
StoreBreaks ==
  /\ ~storeFails
  /\ storeFails' = TRUE
  /\ out' = {}
  /\ UNCHANGED <<now, ticks, stateVars, queueVars, ledgerVars, scoreVars, fetchVars, socket>>

\* the file system works again
StoreRecovers ==
  /\ storeFails
  /\ storeFails' = FALSE
  /\ out' = {}
  /\ UNCHANGED <<now, ticks, stateVars, queueVars, ledgerVars, scoreVars, fetchVars, socket>>

\* the state file is left cut short
FileDamaged ==
  /\ disk # <<>>
  /\ disk # <<Garbage>>
  /\ disk' = <<Garbage>>
  /\ out' = {}
  /\ UNCHANGED <<config, seenMints, openTrades, closedTrades, stats, clockVars, queueVars,
                 ledgerVars, scoreVars, fetchVars, socket>>

WsFrame ==
  UNCHANGED <<config, seenMints, openTrades, closedTrades, disk, clockVars, scoreVars, fetchVars,
              queueVars, ledgerVars>>

\* ws.on("open")
WsOpen ==
  /\ ~socket
  /\ socket' = TRUE
  /\ stats' = [stats EXCEPT !.wsConnected = TRUE]
  /\ out' = {[type |-> "ws", text |-> "connected"]}
  /\ WsFrame

\* ws.on("close")
WsClose ==
  /\ socket \/ stats.wsConnected
  /\ socket' = FALSE
  /\ stats' = [stats EXCEPT !.wsConnected = FALSE]
  /\ out' = {[type |-> "ws", text |-> "disconnected"]}
  /\ WsFrame

\* ws.on("error")
WsError ==
  /\ socket' = FALSE
  /\ stats' = [stats EXCEPT !.wsConnected = FALSE]
  /\ out' = {}
  /\ WsFrame

\* process.once("SIGINT" / "SIGTERM", () => { saveState(); bot.stop(...) })
SignalSaves ==
  /\ Commit(saveState(St), cycles)
  /\ out' = {}
  /\ ConfigCmdFrame

Price(mc, cp) == <<[usd_market_cap |-> mc, complete |-> cp]>>

\* the coin the metadata endpoint returns for identity m
For(coin, m) == [coin EXCEPT ![1].mint = m]

(***************************************************************************)
(* SpecLedger: the lifecycle of trades over three identities.  The         *)
(* metadata endpoint answers handleMint with a WATCH coin, a BUY coin, a   *)
(* graduated coin or nothing; a price fetch finds the coin graduated at    *)
(* 130 % of the entry mark.  One updatePrices call runs at a time.         *)
(***************************************************************************)
LedgerMetas ==
  { <<WarmCoin("MintA", now)>>, <<HotCoin("MintA", 100, now)>>,
    <<[HotCoin("MintA", 100, now) EXCEPT !.complete = TRUE]>> }
LedgerPrices == { Price(130, TRUE) }

LedgerNext ==
  \/ \E m \in Mints : HandleMintStart(m)
  \/ \E m \in Mints, coin \in LedgerMetas : HandleMintFetched(m, For(coin, m))
  \/ \E m \in Mints : HandleMintFetched(m, <<>>)
  \/ \E m \in Mints, ok \in BOOLEAN : AnalyzeDone(m, ok)
  \/ \E m \in Mints, ok \in BOOLEAN : TokenAlertSent(m, ok)
  \/ UpdatePricesStart(1)
  \/ \E data \in LedgerPrices : PriceFetched(1, data)
  \/ PnlAlertDone(1)
  \/ GradAlertDone(1)
  \/ CloseAlertDone(1)
  \/ \E m \in Mints : CloseCmdStart(m)
  \/ \E m \in Mints, data \in LedgerPrices : CloseCmdFetched(m, data)
  \/ ResetCmd

SpecLedger == Init /\ [][LedgerNext]_vars

(***************************************************************************)
(* SpecRefresh: price refreshes of one identity.  updatePrices calls may   *)
(* overlap (setInterval starts one whatever the state of the previous),    *)
(* and a price fetch can fail or find any of the marks of PriceMcaps.      *)
(***************************************************************************)
RefreshMints == {"MintA"}
RefreshMetas == { <<HotCoin("MintA", mcap, now)>> : mcap \in EntryMcaps }

RefreshNext ==
  \/ \E m \in RefreshMints : HandleMintStart(m)
  \/ \E m \in RefreshMints, coin \in RefreshMetas : HandleMintFetched(m, For(coin, m))
  \/ \E m \in RefreshMints, ok \in BOOLEAN : AnalyzeDone(m, ok)
  \/ \E m \in RefreshMints, ok \in BOOLEAN : TokenAlertSent(m, ok)
  \/ UpdatePricesStart(MaxCycles)
  \/ \E c \in 1..MaxCycles, data \in PriceResults : PriceFetched(c, data)
  \/ \E c \in 1..MaxCycles : PnlAlertDone(c)
  \/ \E c \in 1..MaxCycles : GradAlertDone(c)
  \/ \E c \in 1..MaxCycles : CloseAlertDone(c)
  \/ \E m \in RefreshMints : CloseCmdStart(m)
  \/ \E m \in RefreshMints, data \in PriceResults : CloseCmdFetched(m, data)
  \/ ResetCmd

SpecRefresh == Init /\ [][RefreshNext]_vars

(***************************************************************************)
(* SpecCloses: sequences of closes over two identities while the clock     *)
(* advances.  Trades are closed by the graduation path of updatePrices and *)
(* by /close; a /close can find its trade gone when its fetch returns.     *)
(***************************************************************************)
CloseMints == {"MintA", "MintB"}
CloseMetas == { <<HotCoin("MintA", 100, now)>> }

ClosesNext ==
  \/ \E m \in CloseMints : HandleMintStart(m)
  \/ \E m \in CloseMints, coin \in CloseMetas : HandleMintFetched(m, For(coin, m))
  \/ \E m \in CloseMints : AnalyzeDone(m, FALSE)
  \/ UpdatePricesStart(1)
  \/ \E data \in LedgerPrices : PriceFetched(1, data)
  \/ PnlAlertDone(1)
  \/ GradAlertDone(1)
  \/ CloseAlertDone(1)
  \/ \E m \in CloseMints : CloseCmdStart(m)
  \/ \E m \in CloseMints, data \in LedgerPrices : CloseCmdFetched(m, data)
  \/ Tick(QUEUE_PAUSE_MS)

SpecCloses == Init /\ [][ClosesNext]_vars

(***************************************************************************)
(* SpecPnl: the P&L of one trade.  The entry mark, the trade size set by   *)
(* /setamount and the marks found by the refreshes and by /close vary;     *)
(* 3000, 3001 and 3002 are marks whose gain is below and above half a      *)
(* rounding unit.                                                          *)
(***************************************************************************)
PnlMints == {"MintA"}
PnlEntryMcaps == {0, 100, 3000}
PnlMarks == {0, 99, 150, 3001, 3002}
PnlAmounts == {"abc", "0.1", "0.5"}

PnlNext ==
  \/ \E text \in PnlAmounts : SetAmountCmd(text)
  \/ \E m \in PnlMints : HandleMintStart(m)
  \/ \E m \in PnlMints, mcap \in PnlEntryMcaps :
       HandleMintFetched(m, <<HotCoin(m, mcap, now)>>)
  \/ \E m \in PnlMints : AnalyzeDone(m, FALSE)
  \/ UpdatePricesStart(1)
  \/ \E mark \in PnlMarks : PriceFetched(1, Price(mark, FALSE))
  \/ PnlAlertDone(1)
  \/ \E m \in PnlMints : CloseCmdStart(m)
  \/ \E m \in PnlMints, mark \in PnlMarks : CloseCmdFetched(m, Price(mark, FALSE))

SpecPnl == Init /\ [][PnlNext]_vars

(***************************************************************************)
(* SpecStore: the state in memory and the state file.  One identity is     *)
(* handled, traded, refreshed and closed while the connection comes and    *)
(* goes, the operator pauses, resumes and sets the score threshold, and    *)
(* the process is stopped and started again, as either variant that has    *)
(* the connectivity flag.                                                  *)
(***************************************************************************)
StoreMints == {"MintA"}
StorePrices == { <<>>, Price(130, FALSE), Price(130, TRUE) }

StoreNext ==
  \/ \E m \in StoreMints : HandleMintStart(m)
  \/ \E m \in StoreMints :
       HandleMintFetched(m, <<HotCoin(m, 100, now)>>)
  \/ \E m \in StoreMints :
       HandleMintFetched(m, <<[HotCoin(m, 100, now) EXCEPT !.complete = TRUE]>>)
  \/ \E m \in StoreMints, ok \in BOOLEAN : AnalyzeDone(m, ok)
  \/ \E m \in StoreMints, ok \in BOOLEAN : TokenAlertSent(m, ok)
  \/ UpdatePricesStart(1)
  \/ \E data \in StorePrices : PriceFetched(1, data)
  \/ PnlAlertDone(1)
  \/ GradAlertDone(1)
  \/ CloseAlertDone(1)
  \/ \E m \in StoreMints : CloseCmdStart(m)
  \/ \E m \in StoreMints, data \in StorePrices : CloseCmdFetched(m, data)
  \/ ResetCmd
  \/ \E text \in {"abc", "100"} : SetScoreCmd(text)
  \/ \E paused \in BOOLEAN : PauseCmd(paused)
  \/ WsOpen
  \/ WsClose
  \/ WsError
  \/ SignalSaves
  \/ BootWebsocket
  \/ BootQueue

SpecStore == Init /\ [][StoreNext]_vars

(***************************************************************************)
(* SpecPersist: handlers, commands and restarts while the file system can  *)
(* fail and the state file can be damaged.                                 *)
(***************************************************************************)
PersistMints == {"MintA", "MintB"}

PersistNext ==
  \/ \E m \in PersistMints : HandleMintStart(m)
  \/ \E m \in PersistMints : HandleMintFetched(m, <<HotCoin(m, 100, now)>>)
  \/ \E m \in PersistMints : AnalyzeDone(m, TRUE)
  \/ \E m \in PersistMints : TokenAlertSent(m, TRUE)
  \/ \E paused \in BOOLEAN : PauseCmd(paused)
  \/ SetScoreCmd("100")
  \/ SignalSaves
  \/ StoreBreaks
  \/ StoreRecovers
  \/ FileDamaged
  \/ BootWebsocket
  \/ BootQueue

SpecPersist == Init /\ [][PersistNext]_vars

(***************************************************************************)
(* SpecGate: identities scored 75 (BUY) and 59 (WATCH) are handled under   *)
(* every setting of the configuration commands.                            *)
(***************************************************************************)
GateMints == {"MintA", "MintB"}
GateScores == {"0", "50", "59", "60", "75", "76", "100"}

GateNext ==
  \/ \E m \in GateMints : HandleMintStart(m)
  \/ \E m \in GateMints : HandleMintFetched(m, <<HotCoin(m, 100, now)>>)
  \/ \E m \in GateMints : HandleMintFetched(m, <<For(<<WarmCoin(m, now)>>, m)[1]>>)
  \/ \E m \in GateMints : AnalyzeDone(m, TRUE)
  \/ \E m \in GateMints : TokenAlertSent(m, TRUE)
  \/ \E text \in GateScores : SetScoreCmd(text)
  \/ \E text \in {"on", "off"} : WatchAlertsCmd(text)
  \/ \E paused \in BOOLEAN : PauseCmd(paused)

SpecGate == Init /\ [][GateNext]_vars

(***************************************************************************)
(* safeFetch (polling variant): one coroutine per caller.                  *)
(***************************************************************************)
FetchFrame ==
  UNCHANGED <<ticks, storeFails, stateVars, queueVars, ledgerVars, scoreVars, socket>>

Sleepers == { c \in FetchCallers : callers[c].pc = "sleep" }

\* the request leaves: "await fetch(url, ...)"
Sends(c) ==
  /\ callers' = [callers EXCEPT ![c] = [pc |-> "sent", wakeAt |-> 0]]
  /\ fetchLog' = [fetchLog EXCEPT !.sent = @ + 1]
  /\ out' = {[type |-> "request", caller |-> c]}

\* safeFetch is called: "if (now < backoffUntil) await sleep(backoffUntil - now)"
SafeFetchStart(c) ==
  /\ callers[c].pc = "idle"
  /\ fetchLog.sent + Cardinality(Sleepers) < MaxFetches
  /\ IF now < backoffUntil
     THEN /\ callers' = [callers EXCEPT ![c] = [pc |-> "sleep", wakeAt |-> backoffUntil]]
          /\ out' = {}
          /\ UNCHANGED fetchLog
     ELSE Sends(c)
  /\ UNCHANGED <<now, backoffUntil, backoffDelay>>
  /\ FetchFrame

\* the timer of sleep(wait) fires: the request leaves
SafeFetchWakes(c) ==
  /\ callers[c].pc = "sleep"
  /\ \A d \in Sleepers : callers[c].wakeAt <= callers[d].wakeAt
  /\ now' = Max(now, callers[c].wakeAt)
  /\ Sends(c)
  /\ UNCHANGED <<backoffUntil, backoffDelay>>
  /\ FetchFrame

\* "backoffDelay = Math.min(backoffDelay * 2, BACKOFF_MAX_MS)"
Limited(delay) == Min(delay * 2, BACKOFF_MAX_MS)

\* "if (backoffDelay > BACKOFF_BASE_MS)
\*    backoffDelay = Math.max(BACKOFF_BASE_MS, backoffDelay / 2)"
Recovered(delay) ==
  IF delay > BACKOFF_BASE_MS THEN Max(BACKOFF_BASE_MS, delay \div 2) ELSE delay

\* fetch settles after FetchLatency; timers that are due fire first
SafeFetchSettles(c, outcome) ==
  /\ callers[c].pc = "sent"
  /\ \A d \in Sleepers : now + FetchLatency <= callers[d].wakeAt
  /\ now' = now + FetchLatency
  /\ callers' = [callers EXCEPT ![c] = [pc |-> "idle", wakeAt |-> 0]]
  /\ fetchLog' = [fetchLog EXCEPT !.settled = @ + 1,
                                   !.limited = @ + (IF outcome = "429" THEN 1 ELSE 0)]
  /\ out' = {[type |-> "response", caller |-> c, outcome |-> outcome]}
  /\ IF outcome = "429"
     THEN /\ backoffDelay' = Limited(backoffDelay)
          /\ backoffUntil' = now' + backoffDelay'
     ELSE IF outcome = "ok"
     THEN /\ backoffDelay' = Recovered(backoffDelay)
          /\ UNCHANGED backoffUntil
     ELSE UNCHANGED <<backoffUntil, backoffDelay>>
  /\ FetchFrame

\* nothing is in progress and the backoff window runs out
BackoffEnds ==
  /\ \A c \in FetchCallers : callers[c].pc = "idle"
  /\ now < backoffUntil
  /\ now' = backoffUntil
  /\ out' = {}
  /\ UNCHANGED <<backoffUntil, backoffDelay, callers, fetchLog>>
  /\ FetchFrame

FetchNext ==
  \/ \E c \in FetchCallers : SafeFetchStart(c)
  \/ \E c \in FetchCallers : SafeFetchWakes(c)
  \/ \E c \in FetchCallers, outcome \in FetchOutcomes : SafeFetchSettles(c, outcome)
  \/ BackoffEnds

SpecFetch == Init /\ [][FetchNext]_vars

(***************************************************************************)
(* SpecSkip: refresh cycles over two open trades whose price fetches can   *)
(* fail, while /close can take a trade away during a fetch.                *)
(***************************************************************************)
SkipMints == {"MintA", "MintB"}
SkipPrices == { <<>>, Price(130, FALSE), Price(130, TRUE) }

SkipNext ==
  \/ \E m \in SkipMints : HandleMintStart(m)
  \/ \E m \in SkipMints : HandleMintFetched(m, <<HotCoin(m, 100, now)>>)
  \/ \E m \in SkipMints : AnalyzeDone(m, FALSE)
  \/ UpdatePricesStart(1)
  \/ \E data \in SkipPrices : PriceFetched(1, data)
  \/ PnlAlertDone(1)
  \/ GradAlertDone(1)
  \/ CloseAlertDone(1)
  \/ \E m \in SkipMints : CloseCmdStart(m)
  \/ \E m \in SkipMints : CloseCmdFetched(m, <<>>)

SpecSkip == Init /\ [][SkipNext]_vars

(***************************************************************************)
(* SpecReset: /reset at any moment of the life of two identities, with a   *)
(* configuration the operator has changed.                                 *)
(***************************************************************************)
ResetMints == {"MintA", "MintB"}

ResetNext ==
  \/ \E m \in ResetMints : HandleMintStart(m)
  \/ \E m \in ResetMints : HandleMintFetched(m, <<HotCoin(m, 100, now)>>)
  \/ \E m \in ResetMints : AnalyzeDone(m, FALSE)
  \/ UpdatePricesStart(1)
  \/ \E data \in LedgerPrices : PriceFetched(1, data)
  \/ PnlAlertDone(1)
  \/ GradAlertDone(1)
  \/ CloseAlertDone(1)
  \/ ResetCmd
  \/ \E text \in {"50"} : SetScoreCmd(text)
  \/ \E text \in {"on"} : WatchAlertsCmd(text)
  \/ PauseCmd(TRUE)
  \/ WsOpen

SpecReset == Init /\ [][ResetNext]_vars

(***************************************************************************)
(* SpecCommands: the configuration commands with any argument, while the   *)
(* connection comes and goes and identities arrive.                        *)
(***************************************************************************)
CommandsNext ==
  \/ \E text \in ArgTexts : SetScoreCmd(text)
  \/ \E text \in ArgTexts : SetAmountCmd(text)
  \/ \E text \in ArgTexts : WatchAlertsCmd(text)
  \/ \E m \in StoreMints : HandleMintStart(m)
  \/ WsOpen
  \/ WsError
  \/ SignalSaves

SpecCommands == Init /\ [][CommandsNext]_vars

(***************************************************************************)
(* SpecTrim: the trimming of saveState at the marks of the source (2000,   *)
(* 1000 and 500), applied to stores around those marks.  The identities    *)
(* of the dedup sequence are numbered in the order they were added, the    *)
(* closed records in the order they were closed (newest first).            *)
(***************************************************************************)
SEEN_MAX == 2000
SEEN_SLICE == 1000
CLOSED_MAX == 500

SeenLengths == {0, 1, 999, 1000, 1001, 1999, 2000, 2001, 2002, 2999, 3000, 3001}
ClosedLengths == {0, 1, 499, 500, 501, 502, 1001}

SeenOf(n) == [i \in 1..n |-> i]
\* the k-th trade closed: 0.1 SOL entered at 100 and closed at 150 by /close
NumberedClosed(k) ==
  ClosedRecord([ mint |-> k, entryMcap |-> 100, currentMcap |-> 150, peakMcap |-> 150,
                 solAmount |-> 100, entryTime |-> StartTime, score |-> 75,
                 lastAlertStep |-> Fin(2), migrated |-> FALSE ],
               150, "manual", StartTime)
ClosedOf(n) == [i \in 1..n |-> NumberedClosed(n + 1 - i)]

TrimInit ==
  /\ config = DefaultConfig
  /\ seenMints \in { SeenOf(n) : n \in SeenLengths }
  /\ openTrades = <<>>
  /\ closedTrades \in { ClosedOf(n) : n \in ClosedLengths }
  /\ stats = DefaultStats
  /\ disk = <<>>
  /\ InitRuntime
  /\ telemetry = <<>>
  /\ scoredToken = <<>>

\* saveState()
SaveStateTrims ==
  /\ seenMints' = TrimSeenAt(seenMints, SEEN_MAX, SEEN_SLICE)
  /\ closedTrades' = TrimClosedAt(closedTrades, CLOSED_MAX)
  /\ disk' = Written([St EXCEPT !.seenMints = TrimSeenAt(seenMints, SEEN_MAX, SEEN_SLICE),
                                 !.closedTrades = TrimClosedAt(closedTrades, CLOSED_MAX)])
  /\ out' = {}
  /\ UNCHANGED <<config, openTrades, stats, clockVars, queueVars, ledgerVars, scoreVars, fetchVars, socket>>

TrimNext == SaveStateTrims

SpecTrim == TrimInit /\ [][TrimNext]_vars

(***************************************************************************)
(* SpecScore: scoreToken as a function of its input.  The three variants   *)
(* of the program have the same scoring code but for the age: the polling  *)
(* variant computes Date.now() - coin.created_timestamp without the        *)
(* "|| Date.now()" of the other two, which is NaN for a coin without the   *)
(* field, and NaN goes through every sum, Math.round, Math.min and         *)
(* Math.max that follows.  Results are stored with their numbers tagged.   *)
(***************************************************************************)
\* a >= n for a JavaScript number a: false for NaN
JsGe(a, n) == a.k = "fin" /\ a.v >= n

\* score >= 68 ? "BUY" : score >= 45 ? "WATCH" : "SKIP"
VerdictOf(score) ==
  IF JsGe(score, BUY_THRESHOLD) THEN "BUY"
  ELSE IF JsGe(score, WATCH_THRESHOLD) THEN "WATCH"
  ELSE "SKIP"

Tagged(token) ==
  [token EXCEPT !.score = Fin(@), !.ageSeconds = Fin(@), !.velocitySOL = Fin(@)]

\* polling variant: Math.floor((Date.now() - coin.created_timestamp) / 1000)
AgeSecondsPolling(coin, t) ==
  IF coin.created_timestamp = 0 THEN NaN ELSE Fin((t - coin.created_timestamp) \div 1000)

\* scoreToken of the polling variant
scoreTokenPolling(coin, t) ==
  LET age == AgeSecondsPolling(coin, t)
      token == Tagged(scoreToken(coin, t))
  IN  IF age.k = "nan"
      THEN [token EXCEPT !.ageSeconds = NaN, !.velocitySOL = NaN, !.score = NaN,
                         !.verdict = VerdictOf(NaN)]
      ELSE [token EXCEPT !.verdict = VerdictOf(token.score)]

\* scoreToken of part_000, which adds the whale flag
scoreTokenQueue(coin, t) ==
  Tagged(scoreToken(coin, t)) @@ [whaleAlert |-> WhaleAlert(coin.virtual_sol_reserves)]

\* the inputs: reserves in thousandths of a SOL, ages in ms (a created_timestamp
\* of 0: the coin has none), reply counts, and the four flags
TelemetryReserves == {0, 3000, 10000, 20000, 30000}
TelemetryAges == {0, 30000, 60000, 119000, 120000, 299000, 300000}
TelemetryReplies == {0, 10, 50}

TelemetryCoin(sol, created, replies, tw, tg, web, king) ==
  [ mint |-> "MintA", virtual_sol_reserves |-> sol, usd_market_cap |-> 100,
    created_timestamp |-> created, reply_count |-> replies, twitter |-> tw,
    telegram |-> tg, website |-> web, king |-> king, complete |-> FALSE ]

Telemetry ==
  { TelemetryCoin(sol, created, replies, tw, tg, web, king) :
      sol \in TelemetryReserves,
      created \in {0} \cup { StartTime - age : age \in TelemetryAges },
      replies \in TelemetryReplies,
      tw \in BOOLEAN, tg \in BOOLEAN, web \in BOOLEAN, king \in BOOLEAN }

ScoreInit ==
  /\ InitProgram
  /\ telemetry \in { <<coin>> : coin \in Telemetry }
  /\ scoredToken = <<>>

\* the step scores the telemetry and keeps the result
Scores(variant, token) ==
  /\ scoredToken' = <<[variant |-> variant, token |-> token]>>
  /\ out' = {}
  /\ UNCHANGED <<stateVars, clockVars, queueVars, ledgerVars, telemetry, fetchVars, socket>>

ScorePolling ==
  /\ telemetry # <<>>
  /\ Scores("polling", scoreTokenPolling(telemetry[1], now))

ScoreWebsocket ==
  /\ telemetry # <<>>
  /\ Scores("websocket", Tagged(scoreToken(telemetry[1], now)))

ScoreQueue ==
  /\ telemetry # <<>>
  /\ Scores("queue", scoreTokenQueue(telemetry[1], now))

ScoreNext ==
  \/ ScorePolling
  \/ ScoreWebsocket
  \/ ScoreQueue
  \/ \E text \in {"0", "100", "101"} : SetScoreCmd(text)

SpecScore == ScoreInit /\ [][ScoreNext]_vars

(***************************************************************************)
(* Claims about the ingestion queue (SpecQueue).                           *)
(***************************************************************************)
Outstanding == { i \in 1..Len(drains) : drains[i].pc \in {"rpc", "backoff"} }

\* C1: no two drains are ever active at the same time, at most one resolution
\* call of the queue is outstanding, and the busy flag is set while a drain runs.
C1_SingleFlight ==
  /\ Len(drains) <= 1
  /\ Cardinality(Outstanding) <= 1
  /\ (Len(drains) = 1 => queueBusy)

\* an enqueue arrived while a drain was resolving, and was left for that drain
C1_Witness ==
  /\ Len(drains) = 1
  /\ drains[1].pc = "rpc"
  /\ Len(sigQueue) >= 1
  /\ TotalCalls >= 2

\* C2 as stated: a signature enqueued twice, the second time before the drain
\* was done with the first occurrence (queued or in flight), is resolved once.
C2_OneAttemptWhilePending ==
  \A s \in Sigs :
    (qlog[s].calls = 2 /\ qlog[s].early = 1) =>
      /\ qlog[s].attempts <= 1
      /\ (~Pending(s) => qlog[s].attempts = 1)

\* C2 amended: enqueueSig returns at once exactly when the signature is waiting
\* in the queue; every other call adds one entry, and every entry is dequeued
\* once: resolved once, or dropped as stale without a resolution.
C2_OneAttemptPerQueuedEntry ==
  \A s \in Sigs :
    /\ qlog[s].noops = qlog[s].whileQueued
    /\ Count([i \in 1..Len(sigQueue) |-> sigQueue[i].sig], s) <= 1
    /\ qlog[s].attempts + qlog[s].dropped + (IF Queued(s) THEN 1 ELSE 0)
         = qlog[s].calls - qlog[s].whileQueued

\* a second call found the signature waiting, and the signature was resolved once
C2_Witness ==
  \E s \in Sigs :
    /\ qlog[s].calls = 2
    /\ qlog[s].whileQueued = 1
    /\ qlog[s].attempts = 1
    /\ ~Pending(s)

(***************************************************************************)
(* Claims about the trade ledger (SpecLedger).                             *)
(***************************************************************************)
\* the step ends a handleMint call for identity m (its fetch has settled)
HandleMintEnds(m) == hmTasks'[m] < hmTasks[m]

OneTradePerIdentity ==
  \A i, j \in 1..Len(openTrades) : openTrades[i].mint = openTrades[j].mint => i = j

\* C3: at most one open trade exists per identity, and a handleMint call that
\* reaches openTrade for an identity that has an open trade leaves the open map,
\* the fields of the existing trade, the closed list and totalTrades unchanged.
C3_OneOpenTradePerIdentity ==
  /\ []OneTradePerIdentity
  /\ [][ \A m \in Mints :
           (HandleMintEnds(m) /\ HasOpen(openTrades, m)) =>
             /\ openTrades' = openTrades
             /\ trades'[RefOf(openTrades, m)] = trades[RefOf(openTrades, m)]
             /\ closedTrades' = closedTrades
             /\ stats'.totalTrades = stats.totalTrades ]_vars

\* two BUY tokens reached openTrade below the cap and one trade was ever opened:
\* the second call found MintA open
C3_Witness ==
  /\ Keys(openTrades) = <<"MintA">>
  /\ stats.totalTrades = 1
  /\ closedTrades = <<>>
  /\ issued = 0
  /\ stats.alertsSent = 1
  /\ alertTasks["MintA"].analyze = 1

\* C4: the number of open trades never exceeds the cap, and a handleMint call
\* that reaches openTrade while the count is at the cap changes neither the open
\* map nor the trades nor totalTrades.
C4_OpenTradesCapped ==
  /\ [](Len(openTrades) <= MAX_OPEN_TRADES)
  /\ [][ \A m \in Mints :
           (HandleMintEnds(m) /\ Len(openTrades) >= MAX_OPEN_TRADES) =>
             /\ openTrades' = openTrades
             /\ trades' = trades
             /\ stats'.totalTrades = stats.totalTrades ]_vars

\* the map is full and a third BUY token, never traded, was turned away
C4_Witness ==
  /\ Len(openTrades) = MAX_OPEN_TRADES
  /\ stats.totalTrades = MAX_OPEN_TRADES
  /\ closedTrades = <<>>
  /\ issued = 0
  /\ ~HasOpen(openTrades, "MintC")
  /\ alertTasks["MintC"].analyze = 1

HasClosed(m) == \E i \in 1..Len(closedTrades) : closedTrades[i].mint = m

\* C5: closed is terminal: an identity that has a closed record (the list is
\* emptied only by /reset) never has an open trade again.
C5_ClosedIsTerminal ==
  \A m \in Mints : HasClosed(m) => ~HasOpen(openTrades, m)

\* C6: a trade that a refresh found complete and marked migrated is closed with
\* reason 'graduated', whatever is interleaved at the suspension points of the
\* refresh: no closed record of a migrated trade carries another reason.
C6_MigratedClosesAsGraduated ==
  \A i \in 1..Len(closedTrades) :
    closedTrades[i].migrated => closedTrades[i].reason = "graduated"

GraduatedClosed(m) ==
  \E i \in 1..Len(closedTrades) :
    closedTrades[i].mint = m /\ closedTrades[i].reason = "graduated"

\* the step ends a /close command for m, or moves an updatePrices call that is
\* refreshing m
CloseStepFor(m) == closeCmds'[m] < closeCmds[m]
RefreshStepFor(m) == cycles # <<>> /\ cycles[1].mint = m /\ cycles' # cycles

\* C7: graduation is terminal: once an identity has a closed record with reason
\* 'graduated', no refresh step and no /close for that identity changes the open
\* map or the closed list.
C7_GraduationIsTerminal ==
  [][ \A m \in Mints :
        (GraduatedClosed(m) /\ (CloseStepFor(m) \/ RefreshStepFor(m))) =>
          /\ openTrades' = openTrades
          /\ closedTrades' = closedTrades ]_vars

(***************************************************************************)
(* Claims about the P&L alerts of a price refresh (SpecRefresh).           *)
(***************************************************************************)
\* the band of a trade at a mark
BandAt(trade, mark) == AlertStep(calcPnL(trade, mark).pnlPct)

\* what a step reported: the refreshes it made, the P&L alerts it sent for trade r
RefreshesIn(o) == { e \in o : e.type = "refresh" }
PnlAlertsIn(o, r) == { e \in o : e.type = "pnl" /\ e.ref = r }

\* C8: a refresh that finds the trade in the band of its last alert (the band of
\* the new mark equals lastAlertStep as numbers) sends no P&L alert.
C8_NoAlertInSameBand ==
  [][ \A e \in RefreshesIn(out') :
        ~StrictNe(BandAt(trades[e.ref], e.mark), trades[e.ref].lastAlertStep)
          => PnlAlertsIn(out', e.ref) = {} ]_vars

\* a refresh found the open trade in the nonzero band of its last alert, and
\* stayed silent
C8_Witness ==
  \E e \in RefreshesIn(out) :
    /\ trades[e.ref].lastAlertStep.k = "fin"
    /\ trades[e.ref].lastAlertStep.v # 0
    /\ BandAt(trades[e.ref], e.mark) = trades[e.ref].lastAlertStep
    /\ alertLog # {}
    /\ PnlAlertsIn(out, e.ref) = {}

\* C9 as stated: every refresh that finds the trade in another band than the
\* previous refresh left it in (the band of the previous mark) sends exactly one
\* P&L alert.
C9_EveryCrossingAlerts ==
  [][ \A e \in RefreshesIn(out') :
        BandAt(trades[e.ref], e.mark) # BandAt(trades[e.ref], trades[e.ref].currentMcap)
          => Cardinality(PnlAlertsIn(out', e.ref)) = 1 ]_vars

\* C9 amended: a refresh sends a P&L alert, exactly one, if and only if the band
\* of the new mark is not 0 and differs (!==) from lastAlertStep; the alert names
\* that band and lastAlertStep becomes it.  A refresh into band 0, or back into
\* the band of the last alert, sends none and leaves lastAlertStep alone.
C9_AlertIffNewNonzeroBand ==
  [][ \A e \in RefreshesIn(out') :
        LET band == BandAt(trades[e.ref], e.mark)
            last == trades[e.ref].lastAlertStep
        IN  IF StrictNe(band, Fin(0)) /\ StrictNe(band, last)
            THEN /\ PnlAlertsIn(out', e.ref)
                      = {[type |-> "pnl", mint |-> e.mint, ref |-> e.ref, step |-> band]}
                 /\ trades'[e.ref].lastAlertStep = band
            ELSE /\ PnlAlertsIn(out', e.ref) = {}
                 /\ trades'[e.ref].lastAlertStep \in {last, Unreachable.lastAlertStep} ]_vars

\* the mark fell from the band of the last alert (+1) into the band below zero,
\* and the refresh sent the alert for band -1
C9_Witness ==
  \E e \in RefreshesIn(out) :
    /\ trades[e.ref].peakMcap = 130
    /\ trades[e.ref].entryMcap = 100
    /\ e.mark = 70
    /\ PnlAlertsIn(out, e.ref)
         = {[type |-> "pnl", mint |-> e.mint, ref |-> e.ref, step |-> Fin(-1)]}
    /\ trades[e.ref].lastAlertStep = Fin(-1)

\* C10 as stated: over the lifetime of a trade no P&L alert is sent for a band
\* and a direction for which one was sent before (stated for the trades whose
\* entryMcap is positive, whose bands are all numbers).
C10_OneAlertPerBandAndDirection ==
  [][ \A e \in RefreshesIn(out') : \A a \in PnlAlertsIn(out', e.ref) :
        trades[e.ref].entryMcap > 0 =>
        ~\E l \in alertLog :
            /\ l.ref = e.ref
            /\ l.step = a.step
            /\ l.dir = Direction(trades[e.ref].currentMcap, e.mark) ]_vars

\* C10 amended: a P&L alert of a trade is never for the band of the alert sent
\* before it for that trade (bands compared with !==): a band is alerted again
\* only after an alert for another band.
C10_NoRepeatOfLatestBand ==
  [][ \A e \in RefreshesIn(out') : \A a \in PnlAlertsIn(out', e.ref) :
        /\ StrictNe(a.step, Fin(0))
        /\ \A l \in alertLog : (l.ref = e.ref /\ l.latest) => StrictNe(a.step, l.step) ]_vars

\* the trade has been alerted for band +1 upward, then for band -1, and is
\* alerted for band +1 upward again
C10_Witness ==
  \E l0, l1, l2 \in alertLog :
    /\ l0.ref = l1.ref /\ l1.ref = l2.ref
    /\ l0.step = Fin(1) /\ l0.dir = "up" /\ ~l0.latest
    /\ l1.step = Fin(1) /\ l1.dir = "up" /\ l1.latest
    /\ l2.step = Fin(-1) /\ ~l2.latest
    /\ PnlAlertsIn(out, l1.ref) # {}
    /\ trades[l1.ref].entryMcap = 100

\* C11: the peakMcap of a trade (open, or still held by a running refresh) is
\* never lowered by any step, and a refresh leaves it at the larger of its old
\* value and the new mark, also when cycles overlap and when the fetch reports
\* no market cap (the mark is then the last known one).
C11_PeakNeverLowered ==
  [][ /\ \A r \in 1..Len(trades) :
           r \in Live(openTrades', cycles') => trades'[r].peakMcap >= trades[r].peakMcap
      /\ \A e \in RefreshesIn(out') :
           e.ref \in Live(openTrades', cycles') =>
             trades'[e.ref].peakMcap = Max(trades[e.ref].peakMcap, e.mark) ]_vars

\* two cycles overlap; the trade entered at 100 and peaked at 130, and a refresh
\* has just found it at 70
C11_Witness ==
  \E e \in RefreshesIn(out) :
    /\ Len(cycles) = 2
    /\ HasOpen(openTrades, e.mint)
    /\ trades[e.ref].entryMcap = 100
    /\ trades[e.ref].peakMcap = 130
    /\ e.mark = 70
    /\ trades[e.ref].currentMcap = 70

(***************************************************************************)
(* Claims about closeTrade (SpecCloses).                                   *)
(***************************************************************************)
\* the step calls closeTrade for identity m: a /close whose fetch has returned,
\* or the graduation path of the running updatePrices call
CloseTradeCalled(m) ==
  \/ closeCmds'[m] < closeCmds[m]
  \/ /\ cycles # <<>>
     /\ cycles[1].pc = "gradAlert"
     /\ cycles[1].mint = m
     /\ cycles' # cycles

NewestFirst ==
  \A i, j \in 1..Len(closedTrades) :
    i < j => closedTrades[i].exitTime >= closedTrades[j].exitTime

\* C12: closeTrade for an identity without an open trade changes neither the
\* open map nor the closed list nor the counters; otherwise it removes that
\* identity's entry, and only it, from the open map and puts one record, closed
\* now, in front of the closed list (which saveState keeps to its first
\* CLOSED_KEEP records).  The closed list is always ordered newest first.
C12_CloseRemovesAndPrepends ==
  /\ []NewestFirst
  /\ [][ \A m \in Mints :
           CloseTradeCalled(m) =>
             IF ~HasOpen(openTrades, m)
             THEN /\ openTrades' = openTrades
                  /\ closedTrades' = closedTrades
                  /\ stats' = stats
             ELSE /\ openTrades' = SelectSeq(openTrades, LAMBDA e : e.mint # m)
                  /\ Len(openTrades') = Len(openTrades) - 1
                  /\ Len(closedTrades') = Min(Len(closedTrades) + 1, CLOSED_KEEP)
                  /\ closedTrades'[1].mint = m
                  /\ closedTrades'[1].exitTime = now
                  /\ closedTrades'[1].entryTime = trades[RefOf(openTrades, m)].entryTime
                  /\ \A i \in 2..Len(closedTrades') : closedTrades'[i] = closedTrades[i - 1]
         ]_vars

\* two trades were closed at different times, and a /close whose trade had been
\* closed while it waited for its fetch has just got nothing from closeTrade
C12_Witness ==
  /\ Len(closedTrades) = 2
  /\ closedTrades[1].exitTime > closedTrades[2].exitTime
  /\ \E e \in out : e.type = "error"

(***************************************************************************)
(* Claims about the resolver and the drain (SpecQueue).                    *)
(***************************************************************************)
\* what a step reported: the lookup calls that settled in it, the resolutions
\* that returned, the entries the loop dequeued
CallsIn(o) == { e \in o : e.type = "rpc" }
ResolvedIn(o, n) == { e \in o : e.type = "resolved" /\ e.nth = n }
DequeuedIn(o) == { e \in o : e.type \in {"dropped", "issued"} }
DrainsOf(ds, n) == { i \in 1..Len(ds) : ds[i].nth = n }

\* C13: a resolution issues at most QUEUE_RETRIES lookup calls.  A rate-limit
\* failure of call k < QUEUE_RETRIES puts the resolution to sleep until k x 2 s
\* later, and the sleep ends, not before its time, in call k + 1.  Every other
\* outcome ends the resolution at once: a record with a valid key returns that
\* key, whatever the number of the call; any other failure, a rate-limit failure
\* of the last call, and a record without a valid key return none.
C13_RetryProtocol ==
  /\ [](\A i \in 1..Len(drains) : drains[i].attempt \in 1..QUEUE_RETRIES)
  /\ [][ /\ \A call \in CallsIn(out') :
              IF call.kind = "throw" /\ call.rateLimit /\ call.attempt < QUEUE_RETRIES
              THEN /\ ResolvedIn(out', call.nth) = {}
                   /\ \E i \in DrainsOf(drains', call.nth) :
                        /\ drains'[i].pc = "backoff"
                        /\ drains'[i].attempt = call.attempt
                        /\ drains'[i].wakeAt = now + call.attempt * 2000
              ELSE /\ \E r \in ResolvedIn(out', call.nth) :
                        r.mint = IF call.kind = "tx" THEN call.mint ELSE <<>>
                   /\ \A i \in DrainsOf(drains', call.nth) : drains'[i].pc = "pause"
         /\ \A i \in 1..Len(drains) :
              (drains[i].pc = "backoff" /\ drains' # drains) =>
                /\ now >= drains[i].wakeAt
                /\ drains' = [drains EXCEPT ![i].pc = "rpc", ![i].attempt = @ + 1]
       ]_vars

\* the first call was rate limited, 2.2 s have passed, and the second call has
\* returned a record whose first valid key is the identity
C13_Witness ==
  \E call \in CallsIn(out) :
    /\ call.attempt = 2
    /\ call.kind = "tx"
    /\ call.mint # <<>>
    /\ \E r \in ResolvedIn(out, call.nth) : r.mint = call.mint
    /\ now = StartTime + 2200

\* C14: getMintFromSignature never rejects.  Whatever the lookup call does (rate
\* limit, timeout, network error, RPC error, a record that is null, empty or
\* malformed), the step in which a resolution ends reports a result, none unless
\* the record had a valid key, and the drain goes on: it pauses before the next
\* entry when one is waiting, and ends with the busy flag cleared otherwise.
C14_ResolverNeverThrows ==
  [][ /\ \A e \in out' : e.type # "rejected"
      /\ \A call \in CallsIn(out') :
           /\ (call.kind # "tx" /\ ~(call.rateLimit /\ call.attempt < QUEUE_RETRIES))
                => ResolvedIn(out', call.nth) # {}
           /\ (call.kind = "tx" /\ call.mint = <<>>) => ResolvedIn(out', call.nth) # {}
           /\ \A r \in ResolvedIn(out', call.nth) :
                /\ (call.kind # "tx" => r.mint = <<>>)
                /\ sigQueue' = sigQueue
                /\ IF sigQueue # <<>>
                   THEN /\ queueBusy'
                        /\ \E i \in DrainsOf(drains', call.nth) :
                             /\ drains'[i].pc = "pause"
                             /\ drains'[i].wakeAt = now + 1100
                   ELSE drains' = <<>> /\ ~queueBusy'
    ]_vars

\* a lookup call failed for another reason than the rate limit while an entry
\* was waiting: the resolution returned none and the drain pauses before the
\* next entry
C14_Witness ==
  \E call \in CallsIn(out) :
    /\ call.kind = "throw"
    /\ ~call.rateLimit
    /\ \E r \in ResolvedIn(out, call.nth) : r.mint = <<>>
    /\ sigQueue # <<>>
    /\ Len(drains) = 1
    /\ drains[1].pc = "pause"

\* the entries of the queue are in the order of their arrival
ArrivalOrdered(queue) ==
  \A i, j \in 1..Len(queue) : i < j => queue[i].nth < queue[j].nth

\* C15: resolution calls are issued in arrival order, one at a time.  The queue
\* holds its entries in arrival order; when the call for an entry is issued,
\* every lookup issued before has completed (none is outstanding or asleep),
\* and every entry left waiting arrived after it.  So of two entries that are
\* both resolved, the one enqueued first is resolved, and done, first.
C15_ResolvedInArrivalOrder ==
  /\ [](ArrivalOrdered(sigQueue))
  /\ [][ \A e \in { d \in DequeuedIn(out') : d.type = "issued" } :
           /\ Outstanding = {}
           /\ \A i \in 1..Len(drains') :
                drains'[i].pc \in {"rpc", "backoff"} => drains'[i].nth = e.nth
           /\ \A k \in 1..Len(sigQueue') : sigQueue'[k].nth > e.nth
       ]_vars

\* the first entry has been resolved, and the call for the second is issued
\* while the third waits
C15_Witness ==
  \E e \in DequeuedIn(out) :
    /\ e.type = "issued"
    /\ e.nth = 2
    /\ Len(sigQueue) = 1
    /\ sigQueue[1].nth = 3
    /\ \E s \in Sigs : qlog[s].attempts = 2

Nths(seq) == { seq[i].nth : i \in 1..Len(seq) }

\* C16: every entry that leaves the queue is dequeued by the loop, which drops it
\* if it is more than 90 s old at that moment and issues its resolution call
\* otherwise.  A dropped entry gets no resolution call, and the step that drops
\* it handles no identity for it; a resolution is only ever started for an entry
\* the loop has just found fresh.
C16_StaleEntriesDropped ==
  [][ /\ Nths(sigQueue) \ Nths(sigQueue') \subseteq { e.nth : e \in DequeuedIn(out') }
      /\ Nths(drains') \ Nths(drains)
           \subseteq { e.nth : e \in { d \in DequeuedIn(out') : d.type = "issued" } }
      /\ \A e \in DequeuedIn(out') :
           /\ e.nth \notin Nths(sigQueue')
           /\ IF e.age > 90000
              THEN /\ e.type = "dropped"
                   /\ DrainsOf(drains', e.nth) = {}
                   /\ ResolvedIn(out', e.nth) = {}
                   /\ { c \in CallsIn(out') : c.nth = e.nth } = {}
              ELSE /\ e.type = "issued"
                   /\ \E i \in DrainsOf(drains', e.nth) :
                        drains'[i].pc = "rpc" /\ drains'[i].attempt = 1
      /\ (\E e \in DequeuedIn(out') : TRUE) => (seenMints' = seenMints /\ stats' = stats)
    ]_vars

\* the loop has dropped an entry that had waited 91.1 s and issued the call for
\* one that had waited exactly 90 s
C16_Witness ==
  \E d, e \in DequeuedIn(out) :
    /\ d.type = "dropped"
    /\ d.age = 91100
    /\ e.type = "issued"
    /\ e.age = 90000
    /\ \E i \in DrainsOf(drains, e.nth) : drains[i].pc = "rpc"

(***************************************************************************)
(* Claims about the termination of the drain (SpecDrain).                  *)
(***************************************************************************)
\* no state has a waiting entry, or the busy flag set, without a running drain
NeverStuck ==
  /\ sigQueue # <<>> => queueBusy
  /\ queueBusy <=> Len(drains) = 1

\* C17: if every lookup call settles and every timer fires, every entry that is
\* enqueued leaves the queue (resolved, or dropped as stale), and a drain that
\* has started ends with the queue empty and the busy flag cleared.  An enqueue
\* that finds the flag cleared starts a new drain, which issues the call for
\* its entry.  In every reachable state a non-empty queue has a drain running.
C17_DrainTerminatesAndRestarts ==
  /\ []NeverStuck
  /\ \A n \in 1..MaxArrivals : (n \in Nths(sigQueue)) ~> (n \notin Nths(sigQueue))
  /\ queueBusy ~> (~queueBusy /\ sigQueue = <<>>)
  /\ [][ (~queueBusy /\ TotalCalls' = TotalCalls + 1) =>
           /\ queueBusy'
           /\ sigQueue' = <<>>
           /\ \E i \in DrainsOf(drains', TotalCalls') : drains'[i].pc = "rpc" ]_vars

\* the drain of the first entry has ended, and the enqueue of the second has
\* started a new one at once
C17_Witness ==
  \E e \in DequeuedIn(out) :
    /\ e.type = "issued"
    /\ e.nth = 2
    /\ now = StartTime
    /\ queueBusy
    /\ sigQueue = <<>>
    /\ \E s \in Sigs : qlog[s].attempts = 1 /\ ~Pending(s)

(***************************************************************************)
(* Claims about the scoring engine (SpecScore).                            *)
(***************************************************************************)
\* a < n for a JavaScript number a: false for NaN
JsLt(a, n) == a.k = "fin" /\ a.v < n

\* C18: whatever fields the telemetry lacks, the score of every variant of
\* scoreToken is an integer from 0 to 100.
C18_ScoreInRange ==
  \A i \in 1..Len(scoredToken) :
    /\ scoredToken[i].token.score.k = "fin"
    /\ scoredToken[i].token.score.v \in 0..100

\* C19: the verdict is BUY exactly when score >= 68, WATCH exactly when
\* 45 <= score < 68 and SKIP exactly when score < 45, whatever config.minScore
\* and the rest of the state are.
C19_VerdictFromScore ==
  \A i \in 1..Len(scoredToken) :
    LET token == scoredToken[i].token
    IN  /\ token.verdict = "BUY" <=> JsGe(token.score, 68)
        /\ token.verdict = "WATCH" <=> (JsGe(token.score, 45) /\ JsLt(token.score, 68))
        /\ token.verdict = "SKIP" <=> JsLt(token.score, 45)

\* the sum of the components, in thousandths of a point, for a curve of `sol`
\* thousandths of a SOL, a velocity of `vel` thousandths of a SOL per minute and
\* an age of `age` seconds
ComponentSum(coin, sol, vel, age) ==
    Min(28000, vel * 6)
  + (IF coin.twitter THEN 8000 ELSE 0)
  + (IF coin.telegram THEN 6000 ELSE 0)
  + (IF coin.website THEN 4000 ELSE 0)
  + Min(12000, (coin.reply_count * 12000) \div 25)
  + (IF coin.king THEN 8000 ELSE 0)
  + (CASE age < 60 -> 14000 [] age >= 60 /\ age < 120 -> 10000
       [] age >= 120 /\ age < 300 -> 5000 [] OTHER -> 0)
  + (IF sol > 5000 THEN 5000 ELSE 0)
  + (IF sol > 15000 THEN 5000 ELSE 0)
  + (IF sol > 28000 THEN 4000 ELSE 0)

\* the scenario: 10 SOL in the curve after 30 s, Twitter link, 50 replies, featured
ScenarioCoin == TelemetryCoin(10000, StartTime - 30000, 50, TRUE, FALSE, FALSE, TRUE)

\* C20: for telemetry with an age, the score is the sum of the capped components,
\* rounded to the nearest integer and clamped to 0..100, where the velocity is
\* solInCurve / max(0.1, ageMinutes) to three decimals; the scenario scores 75
\* and is a BUY.
C20_ScoreIsComponentSum ==
  \A i \in 1..Len(scoredToken) :
    LET token == scoredToken[i].token
        coin == telemetry[1]
        age == token.ageSeconds.v
        vel == token.velocitySOL.v
        sum == ComponentSum(coin, token.solInCurve, vel, age)
    IN  token.ageSeconds.k = "fin" =>
          /\ token.velocitySOL.k = "fin"
          /\ 2 * Abs(vel * Max(6, age) - token.solInCurve * 60) <= Max(6, age)
          /\ token.score = Fin(Max(0, Min(100, (sum + 500) \div 1000)))
          /\ coin = ScenarioCoin => (token.score = Fin(75) /\ token.verdict = "BUY")

\* the scenario has been scored by the websocket variant
C20_Witness ==
  /\ telemetry = <<ScenarioCoin>>
  /\ Len(scoredToken) = 1
  /\ scoredToken[1].variant = "websocket"
  /\ scoredToken[1].token.velocitySOL = Fin(20000)
  /\ scoredToken[1].token.score = Fin(75)
  /\ scoredToken[1].token.verdict = "BUY"

\* C21: a coin without creation timestamp is scored with age 0 and gets the
\* freshness bonus of 14 points, its other missing fields counting as 0 / false:
\* its score is that of the components at age 0.
C21_MissingTimestampIsAgeZero ==
  \A i \in 1..Len(scoredToken) :
    LET token == scoredToken[i].token
        coin == telemetry[1]
        sum == ComponentSum(coin, coin.virtual_sol_reserves,
                            VelocitySOL(coin.virtual_sol_reserves, 0), 0)
    IN  coin.created_timestamp = 0 =>
          /\ token.ageSeconds = Fin(0)
          /\ token.score = Fin(Max(0, Min(100, (sum + 500) \div 1000)))

(***************************************************************************)
(* Claims about the P&L arithmetic (SpecPnl).                              *)
(***************************************************************************)
\* n is x / d rounded to the nearest integer, halves away from zero (toFixed)
Nearest(n, x, d) ==
  /\ 2 * Abs(n * d - x) <= d
  /\ 2 * Abs(n * d - x) = d => Abs(n) * d > Abs(x)

\* pnl is the P&L of a position of solAmount thousandths of a SOL entered at
\* entryMcap and marked at exitMcap
PnlOf(pnl, entryMcap, exitMcap, solAmount) ==
  IF entryMcap = 0
  THEN /\ pnl.pnlPct = (IF exitMcap = 0 THEN NaN ELSE Infinity)
       /\ pnl.pnlSOL = pnl.pnlPct
       /\ pnl.pnlUSD = pnl.pnlPct
  ELSE /\ pnl.pnlPct.k = "fin" /\ pnl.pnlSOL.k = "fin" /\ pnl.pnlUSD.k = "fin"
       \* (mult - 1) * 100, in tenths of a percent
       /\ Nearest(pnl.pnlPct.v, (exitMcap - entryMcap) * 1000, entryMcap)
       \* (mult - 1) * solAmount, in 1/10000 SOL
       /\ Nearest(pnl.pnlSOL.v, (exitMcap - entryMcap) * solAmount * 10, entryMcap)
       \* pnlSOL * 175, in cents
       /\ Nearest(pnl.pnlUSD.v, pnl.pnlSOL.v * 175, 100)
       \* the sign: positive from half a rounding unit of gain on
       /\ pnl.pnlPct.v > 0 <=> 2 * (exitMcap - entryMcap) * 1000 >= entryMcap
       /\ pnl.pnlSOL.v > 0 <=> 2 * (exitMcap - entryMcap) * solAmount * 10 >= entryMcap
       /\ pnl.pnlPct.v > 0 => exitMcap > entryMcap
       /\ pnl.pnlSOL.v > 0 => exitMcap > entryMcap
       /\ (exitMcap - entryMcap) * 1000 >= entryMcap => pnl.pnlPct.v > 0
       /\ (exitMcap - entryMcap) * solAmount * 10 >= entryMcap => pnl.pnlSOL.v > 0
       /\ (entryMcap = 100 /\ exitMcap = 150 /\ solAmount = 100)
            => (pnl.pnlPct = Fin(500) /\ pnl.pnlSOL = Fin(500))

\* C22: the P&L computed by every refresh and stored by every close is
\* pnlPct = (mult - 1) x 100 to one decimal, pnlSOL = (mult - 1) x solAmount to
\* four decimals and pnlUSD = pnlSOL x 175 to two decimals, with
\* mult = exitMcap / entryMcap; entry 100, exit 150 and 0.1 SOL give 50.0 % and
\* 0.05 SOL; pnlPct and pnlSOL are positive only if the exit is above the entry,
\* and are positive whenever the gain reaches the rounding unit.
C22_PnlArithmetic ==
  [][ /\ \A e \in RefreshesIn(out') :
           PnlOf(e.pnl, trades[e.ref].entryMcap, e.mark, trades[e.ref].solAmount)
      /\ \A m \in Mints :
           (HasOpen(openTrades, m) /\ CloseTradeCalled(m)) =>
             PnlOf(closedTrades'[1], closedTrades'[1].entryMcap,
                   closedTrades'[1].exitMcap, closedTrades'[1].solAmount) ]_vars

\* a position of 0.1 SOL entered at 100 has been closed at 150 with +50.0 % and
\* +0.05 SOL, 8.75 USD
C22_Witness ==
  /\ closedTrades # <<>>
  /\ closedTrades[1].entryMcap = 100
  /\ closedTrades[1].exitMcap = 150
  /\ closedTrades[1].solAmount = 100
  /\ closedTrades[1].pnlPct = Fin(500)
  /\ closedTrades[1].pnlSOL = Fin(500)
  /\ closedTrades[1].pnlUSD = Fin(875)

(***************************************************************************)
(* Claims about the state store (SpecTrim).                                *)
(***************************************************************************)
\* C23: after every saveState the dedup sequence holds at most 2000 identities;
\* a sequence of more than 2000 is replaced by its 1000 most recently added
\* entries in their order, one of 2000 or fewer is left alone; the closed-trades
\* sequence holds at most 500 records, the most recently closed ones.
C23_SaveTrimsStores ==
  [][ LET n == Len(seenMints)
          c == Len(closedTrades)
      IN  /\ Len(seenMints') <= 2000
          /\ n > 2000 =>
               /\ Len(seenMints') = 1000
               /\ \A i \in 1..1000 : seenMints'[i] = seenMints[n - 1000 + i]
          /\ n <= 2000 => seenMints' = seenMints
          /\ Len(closedTrades') = Min(c, 500)
          /\ \A i \in 1..Len(closedTrades') : closedTrades'[i] = closedTrades[i] ]_vars

\* a save has cut a dedup sequence of 2001 identities down to the identities
\* 1002..2001 and a closed-trades sequence of 501 records down to the records
\* 501..2
C23_Witness ==
  /\ Len(seenMints) = 1000
  /\ seenMints[1] = 1002
  /\ seenMints[1000] = 2001
  /\ Len(closedTrades) = 500
  /\ closedTrades[1].mint = 501
  /\ closedTrades[500].mint = 2

(***************************************************************************)
(* Claims about the alert chain (SpecLedger).                              *)
(***************************************************************************)
\* C25: when the commentary call of a token that qualified for an alert settles,
\* with or without a commentary, the token alert is sent.
C25_AlertSurvivesAnalysisFailure ==
  [][ \A m \in Mints :
        alertTasks'[m].analyze < alertTasks[m].analyze
          => \E e \in out' : e.type = "token" /\ e.mint = m ]_vars

(***************************************************************************)
(* Claims about the state in memory and the state file (SpecStore).        *)
(***************************************************************************)
LoadedIn(o) == { e \in o : e.type = "loaded" }

\* C24: after loadState the connectivity flag stats.wsConnected is false,
\* whatever the state file holds, in the websocket variant and in part_000.
C24_LoadResetsConnectivity ==
  [][ LoadedIn(out') # {} => ~stats'.wsConnected ]_vars

ResetIn(o) == { e \in o : e.type = "reply" /\ e.text = "Cleared." }

\* C26 as stated: /reset empties the open trades and the closed trades, sets
\* the counters back to their start values, and leaves the configuration and
\* the dedup sequence as they were.
C26_ResetKeepsConfigAndDedup ==
  [][ ResetIn(out') # {} =>
        /\ openTrades' = <<>>
        /\ closedTrades' = <<>>
        /\ stats' = DefaultStats
        /\ config' = config
        /\ seenMints' = seenMints ]_vars

\* C26 amended: /reset empties the open trades and the closed trades, sets the
\* counters back to their start values and leaves the configuration as it was;
\* the dedup sequence is as it was unless it held more identities than the
\* high-water mark, in which case the save that ends /reset cuts it to its most
\* recent entries.
C26_ResetTrimsDedup ==
  [][ ResetIn(out') # {} =>
        /\ openTrades' = <<>>
        /\ closedTrades' = <<>>
        /\ stats' = DefaultStats
        /\ config' = config
        /\ IF Len(seenMints) > SEEN_HIGH_WATER
           THEN /\ Len(seenMints') = Min(SEEN_KEEP, Len(seenMints))
                /\ \A i \in 1..Len(seenMints') :
                     seenMints'[i] = seenMints[Len(seenMints) - Len(seenMints') + i]
           ELSE seenMints' = seenMints
        /\ disk' # <<>> /\ disk'[1].openTrades = <<>> /\ disk'[1].closedTrades = <<>> ]_vars

\* /reset has cleared the counters of a run that had seen identities, under a
\* configuration that is not the default one
C26_Witness ==
  /\ ResetIn(out) # {}
  /\ config.minScore = 50
  /\ config.alertWatch
  /\ config.paused
  /\ seenMints # <<>>
  /\ stats = DefaultStats
  /\ openTrades = <<>>

(***************************************************************************)
(* Claims about the configuration commands (SpecCommands).                 *)
(***************************************************************************)
ConfigRepliesIn(o) ==
  { e \in o : e.type = "reply" /\ e.text \notin {"Cleared.", "Trade not found."} }

\* the arguments the three commands accept
GoodScores == {"0", "0.1", "0.5", "50", "50.7", "100"}
GoodAmounts == {"0.1", "0.5", "50", "50.7", "100", "101"}
GoodSwitches == {"on", "off", "ON"}

Accepted(e) ==
  \/ e.cmd = "setscore" /\ e.arg \in GoodScores
  \/ e.cmd = "setamount" /\ e.arg \in GoodAmounts
  \/ e.cmd = "watchalerts" /\ e.arg \in GoodSwitches

OperationEnds ==
  \/ \E m \in Mints : hmTasks'[m] < hmTasks[m]
  \/ handled' > handled /\ hmTasks' = hmTasks /\ seenMints' # seenMints
  \/ stats'.alertsSent > stats.alertsSent
  \/ stats'.wsConnected # stats.wsConnected
  \/ Len(cycles') < Len(cycles)
  \/ \E e \in out' : e.type = "closed"
  \/ \E e \in out' : e.type = "reply" /\ e.text \notin {"Trade not found.", "Usage: /setscore <0-100>"}

\* C28: whenever an operation that has changed the state in memory reaches its
\* end, the state file holds the state in memory.
C28_SavedAfterEveryMutation ==
  [][ (LoadedIn(out') = {} /\ OperationEnds) => disk' = <<Snapshot(St')>> ]_vars

(***************************************************************************)
(* Claims about the pace of the ingestion queue (SpecQueue).               *)
(***************************************************************************)
IssuedIn(o) == { e \in o : e.type = "issued" }

\* C29: a resolution call is issued no sooner than one rate-limit pause
\* (1.1 s) after the resolution call before it, whether the same drain or a
\* new one issues it and whether or not stale entries were dropped in between.
C29_PauseBetweenResolutions ==
  [][ (IssuedIn(out') # {} /\ lastCallAt # <<>>)
        => now' - lastCallAt[1] >= 1100 ]_vars

(***************************************************************************)
(* Claims about failed price fetches (SpecSkip).                           *)
(***************************************************************************)
SkippedIn(o) == { e \in o : e.type = "skipped" }

\* the identities of `rest` that have an open trade
StillOpen(rest, ot) == SelectSeq(rest, LAMBDA m : HasOpen(ot, m))

PauseRepliesIn(o) == { e \in o : e.type = "reply" /\ e.text \in {"Paused.", "Resumed."} }

\* C31: persistence failures are never fatal.  While the file system fails,
\* a command that saves still completes: /pause and /resume set the flag, the
\* state in memory is the trimmed one and the file is as it was.  A start
\* that cannot read or parse the file runs with the defaults of the program.
C31_PersistenceFailuresNotFatal ==
  [][ /\ \A e \in PauseRepliesIn(out') :
           storeFails =>
             /\ config' = [config EXCEPT !.paused = (e.text = "Paused.")]
             /\ seenMints' = TrimSeen(seenMints)
             /\ closedTrades' = TrimClosed(closedTrades)
             /\ openTrades' = openTrades
             /\ stats' = stats
             /\ disk' = disk
      /\ \A e \in LoadedIn(out') :
           (disk # <<>> /\ (storeFails \/ disk = <<Garbage>>)) =>
             /\ config' = DefaultConfig
             /\ seenMints' = <<>>
             /\ openTrades' = <<>>
             /\ closedTrades' = <<>>
             /\ stats' = DefaultStats
             /\ disk' = disk ]_vars

\* /resume has completed while the write failed: two identities had been
\* pushed while paused, the sequence in memory is trimmed, scanning is on
\* again, and the file still says paused
C31_Witness ==
  /\ storeFails
  /\ \E e \in PauseRepliesIn(out) : e.text = "Resumed."
  /\ ~config.paused
  /\ Len(seenMints) = SEEN_KEEP
  /\ stats.tokensReceived = 2
  /\ disk # <<>>
  /\ disk # <<Garbage>>
  /\ disk[1].config.paused

\* a start has run with the defaults although a state file with content exists
C31_LoadWitness ==
  /\ LoadedIn(out) # {}
  /\ storeFails
  /\ disk # <<>>
  /\ disk # <<Garbage>>
  /\ disk[1].seenMints # <<>>
  /\ seenMints = <<>>
  /\ config = DefaultConfig

(***************************************************************************)
(* Claims about the alert gate (SpecGate).                                 *)
(***************************************************************************)
ScoredIn(o) == { e \in o : e.type = "scored" }

\* C32: config.minScore is the score from which an identity is bought and
\* alerted: when handleMint scores a coin that has not graduated, with paper
\* trading on, the cap not reached and no trade open for the identity, a trade
\* is opened and the alert chain is started if and only if the score is at
\* least config.minScore.
C32_MinScoreGatesTradeAndAlert ==
  [][ \A e \in ScoredIn(out') :
        ( /\ config.paperTrading
          /\ Len(openTrades) < MAX_OPEN_TRADES
          /\ ~HasOpen(openTrades, e.mint) )
        => ( ( /\ HasOpen(openTrades', e.mint)
               /\ alertTasks'[e.mint].analyze = alertTasks[e.mint].analyze + 1 )
             <=> e.score >= config.minScore ) ]_vars

(***************************************************************************)
(* Claims about the rate-limited fetch (SpecFetch).                        *)
(***************************************************************************)
ResponsesIn(o) == { e \in o : e.type = "response" }
RequestsIn(o) == { e \in o : e.type = "request" }

RECURSIVE Pow2(_)
Pow2(n) == IF n = 0 THEN 1 ELSE 2 * Pow2(n - 1)

\* C33: the k-th 429 in a row from the start imposes a window of
\* min(10 s * 2^(k-1), 5 min); a response that is not a 429 halves the delay,
\* never below 10 s; the delay is always between 10 s and 5 min.
C33_BackoffSchedule ==
  [][ /\ \A e \in ResponsesIn(out') :
           /\ (e.outcome = "429" /\ fetchLog.limited = fetchLog.settled) =>
                backoffUntil' - now' =
                  Min(BACKOFF_BASE_MS * Pow2(fetchLog'.limited - 1), BACKOFF_MAX_MS)
           /\ e.outcome = "ok" =>
                backoffDelay' = Max(BACKOFF_BASE_MS, backoffDelay \div 2)
      /\ backoffDelay' >= BACKOFF_BASE_MS
      /\ backoffDelay' <= BACKOFF_MAX_MS ]_vars

\* C34: no request leaves while the backoff window is active.
C34_NoRequestDuringBackoff ==
  [][ RequestsIn(out') # {} => ~(now' < backoffUntil') ]_vars

(***************************************************************************)
(* Claims about concurrent handleMint calls (SpecLedger).                  *)
(***************************************************************************)
\* C35: an identity is handled at most once while it is in the dedup
\* sequence.  A step that counts an identity or starts its metadata fetch
\* finds the identity absent from the sequence and appends it in the same
\* step, and counts one identity; a handleMint call for an identity that is
\* in the sequence changes nothing, whatever calls are suspended.
C35_HandledOncePerMembership ==
  [][ /\ stats'.tokensReceived > stats.tokensReceived =>
           /\ stats'.tokensReceived = stats.tokensReceived + 1
           /\ \E m \in Mints : m \notin Range(seenMints) /\ seenMints' = Append(seenMints, m)
      /\ \A m \in Mints :
           hmTasks'[m] > hmTasks[m] =>
             /\ m \notin Range(seenMints)
             /\ seenMints' = Append(seenMints, m)
             /\ stats'.tokensReceived = stats.tokensReceived + 1
      /\ (handled' = handled + 1 /\ seenMints' = seenMints) =>
           /\ stats' = stats
           /\ hmTasks' = hmTasks
           /\ alertTasks' = alertTasks
           /\ openTrades' = openTrades ]_vars

\* handleMint was called twice for MintA while the first call was suspended on
\* its metadata fetch: the identity is counted once and one call is in progress
C35_Witness ==
  /\ handled = 2
  /\ named = 1
  /\ seenMints = <<"MintA">>
  /\ stats.tokensReceived = 1
  /\ hmTasks["MintA"] = 1

(***************************************************************************)
(* Claims about /pause (SpecGate).                                         *)
(***************************************************************************)
\* C36: while config.paused is true no paper trade is opened, no alert chain
\* is started and no token alert is sent, also for handleMint calls that were
\* suspended on their metadata fetch when /pause arrived.
C36_PausedOpensAndAlertsNothing ==
  [][ (config.paused /\ config'.paused) =>
        /\ stats'.totalTrades <= stats.totalTrades
        /\ Len(openTrades') <= Len(openTrades)
        /\ \A m \in Mints :
             /\ alertTasks'[m].analyze <= alertTasks[m].analyze
             /\ alertTasks'[m].send <= alertTasks[m].send ]_vars

(***************************************************************************)
(* Claims about the entry mark (SpecRefresh).                              *)
(***************************************************************************)
\* C37: every open trade has entryMcap > 0; so the P&L of every refresh is a
\* finite number, and a refresh whose mark equals the mark of the trade before
\* it sends no P&L alert.
C37_EntryMarkPositive ==
  /\ [](\A i \in 1..Len(openTrades) : trades[openTrades[i].ref].entryMcap > 0)
  /\ [][ \A e \in RefreshesIn(out') :
           /\ e.pnl.pnlPct.k = "fin"
           /\ e.pnl.pnlSOL.k = "fin"
           /\ e.mark = trades[e.ref].currentMcap => PnlAlertsIn(out', e.ref) = {} ]_vars

(***************************************************************************)
(* Claims about /close (SpecCloses).                                       *)
(***************************************************************************)
ErrorsIn(o) == { e \in o : e.type = "error" }

\* C38: /close never fails with an error.  When its price fetch returns, the
\* command closes the trade, adds one closed record for it and sends one close
\* alert, whatever ran while it was suspended; no step ends in an error.
C38_CloseNeverFails ==
  [][ /\ ErrorsIn(out') = {}
      /\ \A m \in Mints :
           closeCmds'[m] < closeCmds[m] =>
             /\ HasOpen(openTrades, m)
             /\ ~HasOpen(openTrades', m)
             /\ Len(closedTrades') = Len(closedTrades) + 1
             /\ closedTrades'[1].mint = m
             /\ out' = {[type |-> "closed", mint |-> m, reason |-> "manual"]} ]_vars

(***************************************************************************)
(* Claims about overlapping refresh cycles (SpecRefresh).                  *)
(***************************************************************************)
GraduatedIn(o) == { e \in o : e.type = "graduated" }
GraduatedClosesIn(o) == { e \in o : e.type = "closed" /\ e.reason = "graduated" }

\* C39: a trade gets at most one graduation alert and at most one close with
\* reason 'graduated', also when refresh cycles overlap.  A graduation alert
\* is sent only for a trade whose migrated flag is not set, and sets it; the
\* flag of a trade stays set as long as a cycle or the open map holds the
\* trade; a close with reason 'graduated' takes an open trade out of the open
\* map and adds one record for it.
C39_GraduatesOnce ==
  [][ /\ \A e \in GraduatedIn(out') :
           /\ ~trades[e.ref].migrated
           /\ trades'[e.ref].migrated
           /\ GraduatedIn(out') = {e}
      /\ \A r \in Live(openTrades, cycles) \cap Live(openTrades', cycles') :
           trades[r].migrated => trades'[r].migrated
      /\ \A e \in GraduatedClosesIn(out') :
           /\ HasOpen(openTrades, e.mint)
           /\ ~HasOpen(openTrades', e.mint)
           /\ closedTrades'[1].mint = e.mint
           /\ closedTrades'[1].reason = "graduated"
           /\ GraduatedClosesIn(out') = {e} ]_vars

\* two cycles overlapped on the same graduated trade: one is awaiting the
\* graduation alert it sent; the other has just refreshed the trade, found it
\* complete and flagged, sent nothing and ended
C39_Witness ==
  /\ Len(cycles) = 1
  /\ cycles[1].pc = "gradAlert"
  /\ trades[cycles[1].ref].migrated
  /\ \E e \in RefreshesIn(out) :
       /\ e.ref = cycles[1].ref
       /\ e.complete
       /\ PnlAlertsIn(out, e.ref) = {}
  /\ GraduatedIn(out) = {}

(***************************************************************************)
(* Claims about the connectivity flag (SpecStore).                         *)
(***************************************************************************)
\* C40: between two handlers stats.wsConnected, the flag /status and the
\* health endpoint report, equals the state of the connection: true from the
\* open event of the socket to its close or error event, whatever commands
\* run in between.
C40_FlagFollowsConnection == stats.wsConnected = socket

====
